---- MODULE Spec2Model ----
(***************************************************************************)
(* storm-data-collector: the ingestion-and-delivery pipeline.              *)
(*                                                                         *)
(* Three components are modelled, each with its own specification:         *)
(*   SpecPublish  publishBatch / publishToDLQ / writeDLQToFile             *)
(*                (kafka/publisher.ts, kafka/dlqPublisher.ts)              *)
(*   SpecClient   connectProducer / disconnectProducer (kafka/client.ts,   *)
(*                the reference-counted singleton producer)                *)
(*   Spec         runJob / processCsvWithFallback / startScheduler         *)
(*                (scheduler/scheduler.ts)                                 *)
(* Every await of the code is a separate step: the part of a function up   *)
(* to its next await is one action, the settlement of the awaited promise  *)
(* starts the next one.                                                    *)
(***************************************************************************)
EXTENDS Integers, Sequences, FiniteSets, TLC

VARIABLES
    \* ---- configuration (immutable after Init) ----
    dlqEnabled,        \* config.dlq.enabled
    maxConcurrentCsv,  \* config.maxConcurrentCsv
    \* ---- publisher.ts / dlqPublisher.ts ----
    ppc,               \* position of every publishBatch call
    batch,             \* the batch handed to every publishBatch call
    batchId,           \* uuid drawn by the call
    dlqMessages,       \* envelopes built by the call
    filepath,          \* fallback file path computed by writeDLQToFile
    result,            \* PublishBatchResult returned by the call
    nextUuid,          \* uuid generator
    wallClock,         \* Date.now(), milliseconds
    sendLog,           \* the producer.send calls of every publishBatch call, settled
    fileWrites,        \* every fs.writeFile that succeeded: path, content
    log,               \* logger output of every publishBatch call
    entry,             \* the exported function the call entered by
    dlqReturn,         \* what publishToDLQ returned to the call, -1 before
    fsCalls,           \* the settled fs.mkdir and fs.writeFile calls of the call
    \* ---- client.ts ----
    producerInstance,  \* module variable, 0 is null
    producerConnected, \* module variable
    connectPromise,    \* module variable, 0 is null
    refCount,          \* module variable
    promises,          \* state and value of every connect promise created
    nextInstance,      \* number of producer objects constructed so far
    connectCalls,      \* calls of the underlying producer.connect()
    disconnectCalls,   \* calls of the underlying producer.disconnect()
    cpc,               \* position of every caller of the client
    awaiting,          \* what a caller of connectProducer awaits
    got,               \* the producer a caller received, 0 if none
    rounds,            \* connect/disconnect rounds a caller has started
    acquires,          \* connectProducer calls issued
    releases,          \* disconnectProducer calls issued
    connectedInstances,\* producer objects whose broker connection is up
    disconnecting,     \* the producer a caller's disconnect() was called on
    lateAcquire,       \* a connectProducer call was issued after a release
    zeroReleaseDone,   \* a release to zero has completed, no connectProducer since
    \* ---- scheduler.ts ----
    jobState,          \* "none", "running", "finished"
    invoker,           \* "startup" or "cron": who called runJob
    cycles,            \* runJob invocations so far
    chunkStart,        \* loop variable i of runJob
    tpc,               \* position of every source-type task
    retryAttempts,     \* the Map of runJob, 0 where no entry
    taskPromise,       \* state of the task's promise seen by allSettled
    outcomes,          \* outcomes of the task's csvStreamToKafka calls
    taskLog,           \* the latest message the task logged
    calls,             \* csvStreamToKafka calls per type in this cycle
    timerMs,           \* delay passed to setTimeout by the latest backoff
    elapsedMs,         \* time elapsed since that setTimeout
    results,           \* the results array of runJob
    jobLog,            \* what runJob logged at its end
    \* ---- csvStream.ts: one csvStreamToKafka call ----
    csvVariant,        \* which csvStreamToKafka of the source runs
    batchSize,         \* option batchSize
    csvType,           \* option type / eventType
    csvLen,            \* number of data rows of the document
    csvNext,           \* 'data' events emitted so far
    csvRows,           \* the array the 'data' handler pushes to
    csvResult,         \* the CsvStreamResult under construction
    handed,            \* the publishBatch calls made, in order, with their state
    cpos,              \* position of the call
    response,          \* what fetch resolved with
    csvError,          \* what the call rejected with
    producerCalls,     \* connect / disconnect calls the call made, in order
    csvLogged,         \* the counts logged with 'CSV processing complete'
    \* ---- retry.ts: one scheduleRetry call ----
    rpc,               \* position of the call and of its cron job
    failedTypes,       \* argument failedTypes
    retryHours,        \* argument retryHours
    nowMs,             \* Date.now()
    scheduledAt,       \* Date.now() when scheduleRetry was called
    retryTime,         \* the date given to Cron
    callbackCalls,     \* the arguments of the retryCallback calls, in order
    console,           \* what was written to the console, in order
    \* ---- index.ts: the process and its shutdown handler ----
    exitCode,          \* code passed to process.exit, NotExited before
    signalsSeen,       \* the signals handled so far, in order
    closePending,      \* healthServer.close callbacks not yet called
    shutdownTimers,    \* elapsed milliseconds of every forced-exit timer
    \* ---- scheduler.ts: runJob calls that may overlap ----
    ovRuns,            \* runJob calls made so far
    ovJob,             \* position of every runJob call
    ovChunk,           \* loop variable i of every runJob call
    ovTpc,             \* position of every task of every runJob call
    ovAttempts         \* the retryAttempts Map of every runJob call

cfgVars   == <<dlqEnabled, maxConcurrentCsv>>
pubVars   == <<ppc, batch, batchId, dlqMessages, filepath, result, nextUuid,
               wallClock, sendLog, fileWrites, log, entry, dlqReturn, fsCalls>>
cliVars   == <<producerInstance, producerConnected, connectPromise, refCount,
               promises, nextInstance, connectCalls, disconnectCalls, cpc,
               awaiting, got, rounds, acquires, releases, connectedInstances,
               disconnecting, lateAcquire, zeroReleaseDone>>
schedVars == <<jobState, invoker, cycles, chunkStart, tpc, retryAttempts,
               taskPromise, outcomes, taskLog, calls, timerMs, elapsedMs, results,
               jobLog>>
csvVars   == <<csvVariant, batchSize, csvType, csvLen, csvNext, csvRows,
               csvResult, handed, cpos, csvLogged, response, csvError,
               producerCalls>>
retryVars == <<rpc, failedTypes, retryHours, nowMs, scheduledAt, retryTime,
               callbackCalls, console>>
procVars  == <<exitCode, signalsSeen, closePending, shutdownTimers>>
ovVars    == <<ovRuns, ovJob, ovChunk, ovTpc, ovAttempts>>
vars      == <<cfgVars, pubVars, cliVars, schedVars, csvVars, retryVars,
               procVars, ovVars>>

----------------------------------------------------------------------------
(* Bounds of the model *)

\* largest batch handed to publishBatch
MaxBatch == 2
\* number of publishBatch calls, which may overlap
MaxCalls == 2
\* milliseconds the wall clock may advance in the model
MaxClock == 1
\* largest list of envelopes handed to publishToDLQ by a caller of its own
MaxEnvelopes == 1
\* concurrent users of the broker connection
NumCallers == 3
\* connect/disconnect rounds of one user
MaxRounds == 1
\* largest configured concurrency limit
MaxConcurrent == 3
\* runJob invocations: the startup one and the cron ticks after it
MaxCycles == 2
\* data rows of a fetched document
MaxRows == 5
\* largest configured batch size of the streaming csvStreamToKafka
MaxBatchSize == 3
\* largest retryHours scheduleRetry is called with
MaxRetryHours == 2
\* shutdown signals the process receives
MaxSignals == 2
\* runJob calls followed when cron ticks may fire during a cycle
MaxRuns == 2

----------------------------------------------------------------------------
(* Helpers *)

Range(s) == {s[i] : i \in DOMAIN s}

Max(a, b) == IF a >= b THEN a ELSE b

RECURSIVE Pow2(_)
Pow2(n) == IF n = 0 THEN 1 ELSE 2 * Pow2(n - 1)

\* JSON.stringify: the text of a value, which is not the value itself
JSONstringify(x) == [json |-> x]

----------------------------------------------------------------------------
(* config.ts *)

Topic == "raw-weather-reports"
DlqTopic == "raw-weather-reports-dlq"
FallbackDirectory == "./data/dlq"

----------------------------------------------------------------------------
(* publisher.ts, dlqPublisher.ts *)

Calls == 1..MaxCalls

\* the content of a parsed row: rows differ in content
RowData(row) == IF row % 2 = 1 THEN "x" ELSE "y"

\* the batch of n rows handed to call c: row numbers are unique over the run
BatchOf(c, n) ==
    [i \in 1..n |-> [row  |-> (c - 1) * MaxBatch + i,
                     data |-> RowData((c - 1) * MaxBatch + i)]]

NoResult == [successful |-> FALSE, publishedCount |-> -1, dlqCount |-> -1]

\* createDLQMessage that wraps the text of the record
createDLQMessage_Stringified(originalMessage, error, context) ==
    [originalMessage |-> JSONstringify(originalMessage),
     metadata |-> [originalTopic |-> context.originalTopic,
                   errorType     |-> "kafka_publish",
                   errorMessage  |-> error,
                   attemptNumber |-> IF context.attemptNumber = 0
                                     THEN 1 ELSE context.attemptNumber,
                   batchId       |-> context.batchId]]

\* createDLQMessage: the envelope of one record
createDLQMessage(originalMessage, error, context) ==
    [originalMessage |-> originalMessage,
     metadata |-> [originalTopic |-> context.originalTopic,
                   errorType     |-> "kafka_publish",
                   errorMessage  |-> error,
                   attemptNumber |-> IF context.attemptNumber = 0
                                     THEN 1 ELSE context.attemptNumber,
                   batchId       |-> context.batchId]]

\* the file name writeDLQToFile derives from the clock
FallbackPath(t) == [dir |-> FallbackDirectory, name |-> <<"dlq-fallback-", t, ".json">>]

\* a FileFallbackMessage that holds the sample envelope only
FallbackMessage_FirstOnly(messages, error) ==
    [failedMessages |-> SubSeq(messages, 1, 1),
     fileMetadata   |-> [count |-> 1, reason |-> error]]

\* the FileFallbackMessage written by writeDLQToFile
FallbackMessage(messages, error) ==
    [failedMessages |-> messages,
     fileMetadata   |-> [count |-> Len(messages), reason |-> error]]

\* the two error logs of the catch block of writeDLQToFile
LostLogs(messages, path) ==
    << [level |-> "error", msg |-> "CRITICAL: Failed to write DLQ fallback file",
        filepath |-> path],
       [level |-> "error", msg |-> "Lost DLQ messages",
        lostCount |-> Len(messages),
        firstMessage |-> IF Len(messages) > 0 THEN messages[1]
                                              ELSE "undefined"] >>

InitPublish ==
    /\ ppc = [c \in Calls |-> "idle"]
    /\ batch = [c \in Calls |-> << >>]
    /\ batchId = [c \in Calls |-> 0]
    /\ dlqMessages = [c \in Calls |-> << >>]
    /\ filepath = [c \in Calls |-> FallbackPath(0)]
    /\ result = [c \in Calls |-> NoResult]
    /\ nextUuid = 1
    /\ wallClock = 0
    /\ sendLog = [c \in Calls |-> << >>]
    /\ fileWrites = << >>
    /\ log = [c \in Calls |-> << >>]
    /\ entry = [c \in Calls |-> "none"]
    /\ dlqReturn = [c \in Calls |-> -1]
    /\ fsCalls = [c \in Calls |-> << >>]

\* publishBatch up to its first await: the empty-batch return, or the uuid
\* and the call of producer.send on the primary topic
PublishBatchCall(c, b) ==
    /\ ppc[c] = "idle"
    /\ entry' = [entry EXCEPT ![c] = "publishBatch"]
    /\ batch' = [batch EXCEPT ![c] = b]
    /\ IF Len(b) = 0
       THEN /\ result' = [result EXCEPT ![c] =
                 [successful |-> TRUE, publishedCount |-> 0, dlqCount |-> 0]]
            /\ ppc' = [ppc EXCEPT ![c] = "returned"]
            /\ UNCHANGED <<batchId, nextUuid>>
       ELSE /\ batchId' = [batchId EXCEPT ![c] = nextUuid]
            /\ nextUuid' = nextUuid + 1
            /\ ppc' = [ppc EXCEPT ![c] = "awaitSend"]
            /\ UNCHANGED result
    /\ UNCHANGED <<dlqMessages, filepath, wallClock, sendLog, fileWrites, log,
                   dlqReturn, fsCalls>>

\* a send that carries the first record of the batch only
PrimaryMessages_FirstOnly(b) ==
    [i \in 1..(IF Len(b) > 0 THEN 1 ELSE 0) |-> [value |-> JSONstringify(b[i])]]

\* the messages publishBatch sends to the primary topic
PrimaryMessages(b) == [i \in 1..Len(b) |-> [value |-> JSONstringify(b[i])]]

\* the messages publishToDLQ sends to the dead-letter topic
DlqSendMessages(messages) ==
    [i \in 1..Len(messages) |->
        [value |-> JSONstringify(messages[i]),
         key   |-> messages[i].metadata.batchId]]

\* publishBatch after the primary send settled: the success return, or the
\* catch block, which builds the envelopes and enters publishToDLQ up to its
\* first await
PrimarySendSettle(c, ok) ==
    /\ ppc[c] = "awaitSend"
    /\ sendLog' = [sendLog EXCEPT ![c] = Append(@,
          [topic |-> Topic, messages |-> PrimaryMessages(batch[c]), ok |-> ok])]
    /\ IF ok
       THEN /\ result' = [result EXCEPT ![c] =
                 [successful |-> TRUE, publishedCount |-> Len(batch[c]),
                  dlqCount |-> 0]]
            /\ ppc' = [ppc EXCEPT ![c] = "returned"]
            /\ UNCHANGED <<dlqMessages, log, dlqReturn>>
       ELSE LET msgs == [i \in 1..Len(batch[c]) |->
                           createDLQMessage(batch[c][i], "send failed",
                               [originalTopic |-> Topic, batchId |-> batchId[c],
                                attemptNumber |-> 1])]
                failed == [level |-> "error", msg |-> "Kafka publish failed",
                           batchSize |-> Len(batch[c]), topic |-> Topic]
            IN  /\ dlqMessages' = [dlqMessages EXCEPT ![c] = msgs]
                /\ IF ~dlqEnabled \/ Len(msgs) = 0
                   THEN \* publishToDLQ returns 0 at once
                        /\ result' = [result EXCEPT ![c] =
                              [successful |-> FALSE, publishedCount |-> 0,
                               dlqCount |-> 0]]
                        /\ ppc' = [ppc EXCEPT ![c] = "returned"]
                        /\ dlqReturn' = [dlqReturn EXCEPT ![c] = 0]
                        /\ log' = [log EXCEPT ![c] = Append(@, failed)]
                   ELSE /\ ppc' = [ppc EXCEPT ![c] = "awaitDlqSend"]
                        /\ log' = [log EXCEPT ![c] = @ \o << failed,
                              [level |-> "info", msg |-> "Publishing messages to DLQ",
                               count |-> Len(msgs), topic |-> DlqTopic] >>]
                        /\ UNCHANGED <<result, dlqReturn>>
    /\ UNCHANGED <<batch, batchId, filepath, nextUuid, wallClock, fileWrites,
                   entry, fsCalls>>

\* publishToDLQ that writes the fallback file whatever the send did
DlqSendSettle_AlwaysFile(c, ok) ==
    /\ ppc[c] = "awaitDlqSend"
    /\ sendLog' = [sendLog EXCEPT ![c] = Append(@,
          [topic |-> DlqTopic, messages |-> DlqSendMessages(dlqMessages[c]),
           ok |-> ok])]
    /\ \E t \in wallClock..(IF wallClock < MaxClock THEN wallClock + 1
                                                    ELSE wallClock) :
            /\ wallClock' = t
            /\ filepath' = [filepath EXCEPT ![c] = FallbackPath(t)]
            /\ log' = [log EXCEPT ![c] = Append(@, [level |-> "error",
                  msg |-> "Failed to publish to DLQ, falling back to file"])]
            /\ ppc' = [ppc EXCEPT ![c] = "awaitMkdir"]
            /\ UNCHANGED <<result, dlqReturn>>
    /\ UNCHANGED <<batch, batchId, dlqMessages, nextUuid, fileWrites, entry,
                   fsCalls>>

\* publishToDLQ after the dead-letter send settled: the count, or the catch
\* block, which enters writeDLQToFile up to its first await (fs.mkdir)
DlqSendSettle(c, ok) ==
    /\ ppc[c] = "awaitDlqSend"
    /\ sendLog' = [sendLog EXCEPT ![c] = Append(@,
          [topic |-> DlqTopic, messages |-> DlqSendMessages(dlqMessages[c]),
           ok |-> ok])]
    /\ IF ok
       THEN /\ dlqReturn' = [dlqReturn EXCEPT ![c] = Len(dlqMessages[c])]
            /\ result' = IF entry[c] = "publishBatch"
                         THEN [result EXCEPT ![c] =
                                 [successful |-> FALSE, publishedCount |-> 0,
                                  dlqCount |-> Len(dlqMessages[c])]]
                         ELSE result
            /\ ppc' = [ppc EXCEPT ![c] = "returned"]
            /\ UNCHANGED <<filepath, wallClock, log>>
       ELSE \E t \in wallClock..(IF wallClock < MaxClock THEN wallClock + 1
                                                         ELSE wallClock) :
            /\ wallClock' = t
            /\ filepath' = [filepath EXCEPT ![c] = FallbackPath(t)]
            /\ log' = [log EXCEPT ![c] = Append(@, [level |-> "error",
                  msg |-> "Failed to publish to DLQ, falling back to file"])]
            /\ ppc' = [ppc EXCEPT ![c] = "awaitMkdir"]
            /\ UNCHANGED <<result, dlqReturn>>
    /\ UNCHANGED <<batch, batchId, dlqMessages, nextUuid, fileWrites, entry,
                   fsCalls>>

\* publishToDLQ returns 0 after writeDLQToFile, and publishBatch, when it is
\* the caller, returns its result
FallbackReturn(c) ==
    /\ dlqReturn' = [dlqReturn EXCEPT ![c] = 0]
    /\ result' = IF entry[c] = "publishBatch"
                 THEN [result EXCEPT ![c] =
                         [successful |-> FALSE, publishedCount |-> 0,
                          dlqCount |-> 0]]
                 ELSE result
    /\ ppc' = [ppc EXCEPT ![c] = "returned"]

\* writeDLQToFile without its catch block: the fs error leaves the call
MkdirSettle_Rethrow(c, ok) ==
    /\ ppc[c] = "awaitMkdir"
    /\ fsCalls' = [fsCalls EXCEPT ![c] = Append(@,
          [op |-> "mkdir", path |-> FallbackDirectory, ok |-> ok])]
    /\ ppc' = [ppc EXCEPT ![c] = IF ok THEN "awaitWriteFile" ELSE "rejected"]
    /\ UNCHANGED <<batch, batchId, dlqMessages, filepath, nextUuid, wallClock,
                   sendLog, fileWrites, entry, result, log, dlqReturn>>

\* writeDLQToFile after fs.mkdir settled: the call of fs.writeFile, or the
\* catch block with the critical logs
MkdirSettle(c, ok) ==
    /\ ppc[c] = "awaitMkdir"
    /\ fsCalls' = [fsCalls EXCEPT ![c] = Append(@,
          [op |-> "mkdir", path |-> FallbackDirectory, ok |-> ok])]
    /\ IF ok
       THEN /\ ppc' = [ppc EXCEPT ![c] = "awaitWriteFile"]
            /\ UNCHANGED <<result, log, dlqReturn>>
       ELSE /\ log' = [log EXCEPT ![c] = @ \o LostLogs(dlqMessages[c], filepath[c])]
            /\ FallbackReturn(c)
    /\ UNCHANGED <<batch, batchId, dlqMessages, filepath, nextUuid, wallClock,
                   sendLog, fileWrites, entry>>

\* writeDLQToFile whose catch block swallows the error without the logs
WriteFileSettle_Silent(c, ok) ==
    /\ ppc[c] = "awaitWriteFile"
    /\ IF ok
       THEN /\ fileWrites' = Append(fileWrites,
                 [filepath |-> filepath[c],
                  content  |-> JSONstringify(
                      FallbackMessage(dlqMessages[c], "dlq send failed"))])
            /\ log' = [log EXCEPT ![c] = Append(@, [level |-> "info",
                 msg |-> "Wrote DLQ messages to fallback file",
                 count |-> Len(dlqMessages[c]), filepath |-> filepath[c]])]
       ELSE UNCHANGED <<log, fileWrites>>
    /\ fsCalls' = [fsCalls EXCEPT ![c] = Append(@,
          [op |-> "writeFile", path |-> filepath[c], ok |-> ok])]
    /\ FallbackReturn(c)
    /\ UNCHANGED <<batch, batchId, dlqMessages, filepath, nextUuid, wallClock,
                   sendLog, entry>>

\* writeDLQToFile after fs.writeFile settled: the info log, or the catch
\* block with the critical logs; then publishToDLQ and publishBatch return
WriteFileSettle(c, ok) ==
    /\ ppc[c] = "awaitWriteFile"
    /\ IF ok
       THEN /\ fileWrites' = Append(fileWrites,
                 [filepath |-> filepath[c],
                  content  |-> JSONstringify(
                      FallbackMessage(dlqMessages[c], "dlq send failed"))])
            /\ log' = [log EXCEPT ![c] = Append(@, [level |-> "info",
                 msg |-> "Wrote DLQ messages to fallback file",
                 count |-> Len(dlqMessages[c]), filepath |-> filepath[c]])]
       ELSE /\ log' = [log EXCEPT ![c] = @ \o LostLogs(dlqMessages[c], filepath[c])]
            /\ UNCHANGED fileWrites
    /\ fsCalls' = [fsCalls EXCEPT ![c] = Append(@,
          [op |-> "writeFile", path |-> filepath[c], ok |-> ok])]
    /\ FallbackReturn(c)
    /\ UNCHANGED <<batch, batchId, dlqMessages, filepath, nextUuid, wallClock,
                   sendLog, entry>>

\* publishToDLQ that tests the configuration only, not the list
PublishToDLQCall_NoEmptyCheck(c, messages) ==
    /\ ppc[c] = "idle"
    /\ entry' = [entry EXCEPT ![c] = "publishToDLQ"]
    /\ dlqMessages' = [dlqMessages EXCEPT ![c] = messages]
    /\ IF ~dlqEnabled
       THEN /\ dlqReturn' = [dlqReturn EXCEPT ![c] = 0]
            /\ ppc' = [ppc EXCEPT ![c] = "returned"]
            /\ UNCHANGED log
       ELSE /\ ppc' = [ppc EXCEPT ![c] = "awaitDlqSend"]
            /\ log' = [log EXCEPT ![c] = Append(@,
                  [level |-> "info", msg |-> "Publishing messages to DLQ",
                   count |-> Len(messages), topic |-> DlqTopic])]
            /\ UNCHANGED dlqReturn
    /\ UNCHANGED <<batch, batchId, filepath, result, nextUuid, wallClock,
                   sendLog, fileWrites, fsCalls>>

\* publishToDLQ called on its own, up to its return of 0 or its await of
\* the dead-letter send
PublishToDLQCall(c, messages) ==
    /\ ppc[c] = "idle"
    /\ entry' = [entry EXCEPT ![c] = "publishToDLQ"]
    /\ dlqMessages' = [dlqMessages EXCEPT ![c] = messages]
    /\ IF ~dlqEnabled \/ Len(messages) = 0
       THEN /\ dlqReturn' = [dlqReturn EXCEPT ![c] = 0]
            /\ ppc' = [ppc EXCEPT ![c] = "returned"]
            /\ UNCHANGED log
       ELSE /\ ppc' = [ppc EXCEPT ![c] = "awaitDlqSend"]
            /\ log' = [log EXCEPT ![c] = Append(@,
                  [level |-> "info", msg |-> "Publishing messages to DLQ",
                   count |-> Len(messages), topic |-> DlqTopic])]
            /\ UNCHANGED dlqReturn
    /\ UNCHANGED <<batch, batchId, filepath, result, nextUuid, wallClock,
                   sendLog, fileWrites, fsCalls>>

\* the envelopes a caller of publishToDLQ built for n records of its own
EnvelopesOf(c, n) ==
    [i \in 1..n |-> createDLQMessage(BatchOf(c, n)[i], "send failed",
                        [originalTopic |-> Topic, batchId |-> 0,
                         attemptNumber |-> 0])]

\* the publisher leaves the other components alone
PublishFrame ==
    UNCHANGED <<cfgVars, cliVars, schedVars, csvVars, retryVars, procVars,
                ovVars>>

HandBatch ==
    /\ \E c \in Calls, n \in 0..MaxBatch : PublishBatchCall(c, BatchOf(c, n))
    /\ PublishFrame
HandEnvelopes ==
    /\ \E c \in Calls, n \in 0..MaxEnvelopes : PublishToDLQCall(c, EnvelopesOf(c, n))
    /\ PublishFrame
PrimarySend ==
    /\ \E c \in Calls, ok \in BOOLEAN : PrimarySendSettle(c, ok)
    /\ PublishFrame
DlqSend ==
    /\ \E c \in Calls, ok \in BOOLEAN : DlqSendSettle(c, ok)
    /\ PublishFrame
Mkdir ==
    /\ \E c \in Calls, ok \in BOOLEAN : MkdirSettle(c, ok)
    /\ PublishFrame
WriteFile ==
    /\ \E c \in Calls, ok \in BOOLEAN : WriteFileSettle(c, ok)
    /\ PublishFrame

NextPublish ==
    \/ HandBatch
    \/ HandEnvelopes
    \/ PrimarySend
    \/ DlqSend
    \/ Mkdir
    \/ WriteFile

----------------------------------------------------------------------------
(* client.ts: the reference-counted singleton producer *)

Callers == 1..NumCallers

NoAwait == [kind |-> "none", v |-> 0]

InitClient ==
    /\ producerInstance = 0
    /\ producerConnected = FALSE
    /\ connectPromise = 0
    /\ refCount = 0
    /\ promises = << >>
    /\ nextInstance = 0
    /\ connectCalls = 0
    /\ disconnectCalls = 0
    /\ cpc = [p \in Callers |-> "idle"]
    /\ awaiting = [p \in Callers |-> NoAwait]
    /\ got = [p \in Callers |-> 0]
    /\ rounds = [p \in Callers |-> 0]
    /\ acquires = 0
    /\ releases = 0
    /\ connectedInstances = {}
    /\ disconnecting = [p \in Callers |-> 0]
    /\ lateAcquire = FALSE
    /\ zeroReleaseDone = FALSE

\* getOrCreateProducer: the instance it returns
getOrCreateProducer == IF producerInstance = 0 THEN nextInstance + 1
                                               ELSE producerInstance

\* connectProducer without the guard on the connect in flight
ConnectProducerCall_NoDedup(p) ==
    /\ cpc[p] = "idle"
    /\ rounds[p] < MaxRounds
    /\ rounds' = [rounds EXCEPT ![p] = @ + 1]
    /\ refCount' = refCount + 1
    /\ acquires' = acquires + 1
    /\ lateAcquire' = (lateAcquire \/ releases > 0)
    /\ zeroReleaseDone' = FALSE
    /\ cpc' = [cpc EXCEPT ![p] = "awaitConnect"]
    /\ got' = [got EXCEPT ![p] = 0]
    /\ IF producerConnected /\ producerInstance # 0
       THEN /\ awaiting' = [awaiting EXCEPT ![p] =
                              [kind |-> "value", v |-> producerInstance]]
            /\ UNCHANGED <<producerInstance, nextInstance, connectPromise,
                           promises, connectCalls>>
       ELSE LET producer == getOrCreateProducer IN
            /\ producerInstance' = producer
            /\ nextInstance' = Max(nextInstance, producer)
            /\ connectCalls' = connectCalls + 1
            /\ promises' = Append(promises,
                              [state |-> "pending", value |-> producer])
            /\ connectPromise' = Len(promises) + 1
            /\ awaiting' = [awaiting EXCEPT ![p] =
                              [kind |-> "promise", v |-> Len(promises) + 1]]
    /\ UNCHANGED <<producerConnected, disconnectCalls, releases,
                   connectedInstances, disconnecting>>

\* connectProducer up to its return: the reference is counted, then the
\* caller is given the connected instance, the connect in flight, or a new
\* connect whose producer.connect() is called before the function returns
ConnectProducerCall(p) ==
    /\ cpc[p] = "idle"
    /\ rounds[p] < MaxRounds
    /\ rounds' = [rounds EXCEPT ![p] = @ + 1]
    /\ refCount' = refCount + 1
    /\ acquires' = acquires + 1
    /\ lateAcquire' = (lateAcquire \/ releases > 0)
    /\ zeroReleaseDone' = FALSE
    /\ cpc' = [cpc EXCEPT ![p] = "awaitConnect"]
    /\ got' = [got EXCEPT ![p] = 0]
    /\ IF producerConnected /\ producerInstance # 0
       THEN /\ awaiting' = [awaiting EXCEPT ![p] =
                              [kind |-> "value", v |-> producerInstance]]
            /\ UNCHANGED <<producerInstance, nextInstance, connectPromise,
                           promises, connectCalls>>
       ELSE IF connectPromise # 0
       THEN /\ awaiting' = [awaiting EXCEPT ![p] =
                              [kind |-> "promise", v |-> connectPromise]]
            /\ UNCHANGED <<producerInstance, nextInstance, connectPromise,
                           promises, connectCalls>>
       ELSE LET producer == getOrCreateProducer IN
            /\ producerInstance' = producer
            /\ nextInstance' = Max(nextInstance, producer)
            /\ connectCalls' = connectCalls + 1
            /\ promises' = Append(promises,
                              [state |-> "pending", value |-> producer])
            /\ connectPromise' = Len(promises) + 1
            /\ awaiting' = [awaiting EXCEPT ![p] =
                              [kind |-> "promise", v |-> Len(promises) + 1]]
    /\ UNCHANGED <<producerConnected, disconnectCalls, releases,
                   connectedInstances, disconnecting>>

\* the rest of the async block of connectProducer, once the underlying
\* producer.connect() has settled; a rejection leaves the block at the await
ConnectSettle(q, ok) ==
    /\ q \in DOMAIN promises
    /\ promises[q].state = "pending"
    /\ IF ok
       THEN /\ producerConnected' = TRUE
            /\ connectPromise' = 0
            /\ connectedInstances' = connectedInstances \cup {promises[q].value}
            /\ promises' = [promises EXCEPT ![q].state = "fulfilled"]
       ELSE /\ promises' = [promises EXCEPT ![q].state = "rejected"]
            /\ UNCHANGED <<producerConnected, connectPromise, connectedInstances>>
    /\ UNCHANGED <<producerInstance, refCount, nextInstance, connectCalls,
                   disconnectCalls, cpc, awaiting, got, rounds, acquires,
                   releases, disconnecting, lateAcquire, zeroReleaseDone>>

\* the caller of connectProducer resumes: csvStreamToKafka holds the
\* producer, or throws because the connect was rejected
CallerResume(p) ==
    /\ cpc[p] = "awaitConnect"
    /\ \/ /\ awaiting[p].kind = "value"
          /\ got' = [got EXCEPT ![p] = awaiting[p].v]
          /\ cpc' = [cpc EXCEPT ![p] = "holding"]
       \/ /\ awaiting[p].kind = "promise"
          /\ promises[awaiting[p].v].state = "fulfilled"
          /\ got' = [got EXCEPT ![p] = promises[awaiting[p].v].value]
          /\ cpc' = [cpc EXCEPT ![p] = "holding"]
       \/ /\ awaiting[p].kind = "promise"
          /\ promises[awaiting[p].v].state = "rejected"
          /\ cpc' = [cpc EXCEPT ![p] = "idle"]
          /\ UNCHANGED got
    /\ UNCHANGED <<producerInstance, producerConnected, connectPromise,
                   refCount, promises, nextInstance, connectCalls,
                   disconnectCalls, awaiting, rounds, acquires, releases,
                   connectedInstances, disconnecting, lateAcquire,
                   zeroReleaseDone>>

\* csvStreamToKafka throws between connectProducer and disconnectProducer
\* (non-2xx response, missing body): the reference is not released
CallerThrows(p) ==
    /\ cpc[p] = "holding"
    /\ cpc' = [cpc EXCEPT ![p] = "idle"]
    /\ UNCHANGED <<producerInstance, producerConnected, connectPromise,
                   refCount, promises, nextInstance, connectCalls,
                   disconnectCalls, awaiting, got, rounds, acquires, releases,
                   connectedInstances, disconnecting, lateAcquire,
                   zeroReleaseDone>>

\* disconnectProducer without the early return while references remain
DisconnectProducerCall_Eager(p) ==
    /\ cpc[p] = "holding"
    /\ refCount' = Max(0, refCount - 1)
    /\ releases' = releases + 1
    /\ IF producerInstance # 0
       THEN /\ disconnectCalls' = disconnectCalls + 1
            /\ disconnecting' = [disconnecting EXCEPT ![p] = producerInstance]
            /\ cpc' = [cpc EXCEPT ![p] = "awaitDisconnect"]
            /\ UNCHANGED zeroReleaseDone
       ELSE /\ cpc' = [cpc EXCEPT ![p] = "idle"]
            /\ zeroReleaseDone' = (zeroReleaseDone \/ (refCount = 1))
            /\ UNCHANGED <<disconnectCalls, disconnecting>>
    /\ UNCHANGED <<producerInstance, producerConnected, connectPromise,
                   promises, nextInstance, connectCalls, awaiting, got, rounds,
                   acquires, connectedInstances, lateAcquire>>

\* disconnectProducer up to its return or its await: the reference is
\* released, and the last release calls the underlying producer.disconnect()
DisconnectProducerCall(p) ==
    /\ cpc[p] = "holding"
    /\ refCount' = Max(0, refCount - 1)
    /\ releases' = releases + 1
    /\ IF refCount' > 0
       THEN /\ cpc' = [cpc EXCEPT ![p] = "idle"]
            /\ UNCHANGED <<disconnectCalls, disconnecting, zeroReleaseDone>>
       ELSE IF producerInstance # 0
       THEN /\ disconnectCalls' = disconnectCalls + 1
            /\ disconnecting' = [disconnecting EXCEPT ![p] = producerInstance]
            /\ cpc' = [cpc EXCEPT ![p] = "awaitDisconnect"]
            /\ UNCHANGED zeroReleaseDone
       ELSE /\ cpc' = [cpc EXCEPT ![p] = "idle"]
            /\ zeroReleaseDone' = (zeroReleaseDone \/ (refCount = 1))
            /\ UNCHANGED <<disconnectCalls, disconnecting>>
    /\ UNCHANGED <<producerInstance, producerConnected, connectPromise,
                   promises, nextInstance, connectCalls, awaiting, got, rounds,
                   acquires, connectedInstances, lateAcquire>>

\* disconnectProducer called by a caller that holds no reference of its own
\* (graceful shutdown, the drain loop of the client tests)
DisconnectProducerUnheld(p) ==
    /\ cpc[p] = "idle"
    /\ rounds[p] < MaxRounds
    /\ rounds' = [rounds EXCEPT ![p] = @ + 1]
    /\ refCount' = Max(0, refCount - 1)
    /\ releases' = releases + 1
    /\ IF refCount' > 0
       THEN /\ cpc' = [cpc EXCEPT ![p] = "idle"]
            /\ UNCHANGED <<disconnectCalls, disconnecting, zeroReleaseDone>>
       ELSE IF producerInstance # 0
       THEN /\ disconnectCalls' = disconnectCalls + 1
            /\ disconnecting' = [disconnecting EXCEPT ![p] = producerInstance]
            /\ cpc' = [cpc EXCEPT ![p] = "awaitDisconnect"]
            /\ UNCHANGED zeroReleaseDone
       ELSE /\ cpc' = [cpc EXCEPT ![p] = "idle"]
            /\ zeroReleaseDone' = (zeroReleaseDone \/ (refCount = 1))
            /\ UNCHANGED <<disconnectCalls, disconnecting>>
    /\ UNCHANGED <<producerInstance, producerConnected, connectPromise,
                   promises, nextInstance, connectCalls, awaiting, got,
                   acquires, connectedInstances, lateAcquire>>

\* disconnectProducer after the underlying producer.disconnect() resolved
DisconnectSettle(p) ==
    /\ cpc[p] = "awaitDisconnect"
    /\ producerConnected' = FALSE
    /\ producerInstance' = 0
    /\ connectedInstances' = connectedInstances \ {disconnecting[p]}
    /\ zeroReleaseDone' = TRUE
    /\ cpc' = [cpc EXCEPT ![p] = "idle"]
    /\ UNCHANGED <<connectPromise, refCount, promises, nextInstance,
                   connectCalls, disconnectCalls, awaiting, got, rounds,
                   acquires, releases, disconnecting, lateAcquire>>

\* the connection manager leaves the other components alone
ClientFrame ==
    UNCHANGED <<cfgVars, pubVars, schedVars, csvVars, retryVars, procVars,
                ovVars>>

Acquire ==
    /\ \E p \in Callers : ConnectProducerCall(p)
    /\ ClientFrame
ConnectDone ==
    /\ \E q \in DOMAIN promises, ok \in BOOLEAN : ConnectSettle(q, ok)
    /\ ClientFrame
Resume ==
    /\ \E p \in Callers : CallerResume(p)
    /\ ClientFrame
Throw ==
    /\ \E p \in Callers : CallerThrows(p)
    /\ ClientFrame
Release ==
    /\ \E p \in Callers : DisconnectProducerCall(p)
    /\ ClientFrame
DisconnectDone ==
    /\ \E p \in Callers : DisconnectSettle(p)
    /\ ClientFrame

NextClient ==
    \/ Acquire
    \/ ConnectDone
    \/ Resume
    \/ Throw
    \/ Release
    \/ DisconnectDone

ReleaseUnheld ==
    /\ \E p \in Callers : DisconnectProducerUnheld(p)
    /\ ClientFrame

\* the client under any sequence of connectProducer and disconnectProducer
\* calls
NextClientAny ==
    \/ NextClient
    \/ ReleaseUnheld

----------------------------------------------------------------------------
(* scheduler.ts: runJob, processCsvWithFallback, startScheduler *)

\* config.reportTypes, in configured order
ReportTypes == <<"torn", "hail", "wind">>
Types == Range(ReportTypes)

\* config.cron.maxFallbackAttempts
maxFallbackAttempts == 3
\* config.cron.fallbackIntervalMin
fallbackIntervalMin == 30
\* TIMING.MS_PER_MINUTE
MS_PER_MINUTE == 60000

\* HTTP_STATUS_CODES
NOT_FOUND == 404
CLIENT_ERROR_MIN == 400
CLIENT_ERROR_MAX == 499
SERVER_ERROR_MIN == 500
SERVER_ERROR_MAX == 599

\* isServerError with the lower limit of the client errors
isServerError_From400(statusCode) ==
    statusCode >= CLIENT_ERROR_MIN /\ statusCode <= SERVER_ERROR_MAX

isServerError(statusCode) ==
    statusCode >= SERVER_ERROR_MIN /\ statusCode <= SERVER_ERROR_MAX

isClientError(statusCode) ==
    statusCode >= CLIENT_ERROR_MIN /\ statusCode <= CLIENT_ERROR_MAX

\* the fixed-interval policy: the same delay before every retry
calculateFallbackDelay_Fixed(attemptNumber, baseIntervalMinutes) ==
    baseIntervalMinutes * MS_PER_MINUTE

\* calculateFallbackDelay, in milliseconds
calculateFallbackDelay(attemptNumber, baseIntervalMinutes) ==
    baseIntervalMinutes * Pow2(attemptNumber) * MS_PER_MINUTE

\* what one csvStreamToKafka call meets: the broker connect, the fetch
\* (rejected, or a response with a status and possibly a body) and, after a
\* 2xx response with a body, whether reading the body and releasing the
\* producer went through
FetchStatuses == {200, 304, 400, 404, 500}
IOs == {[connect |-> FALSE, fetch |-> "none", status |-> 0, body |-> FALSE,
         rest |-> FALSE],
        [connect |-> TRUE, fetch |-> "rejected", status |-> 0, body |-> FALSE,
         rest |-> FALSE],
        [connect |-> TRUE, fetch |-> "response", status |-> 200, body |-> FALSE,
         rest |-> FALSE],
        [connect |-> TRUE, fetch |-> "response", status |-> 200, body |-> TRUE,
         rest |-> FALSE]}
       \cup {[connect |-> TRUE, fetch |-> "response", status |-> s,
               body |-> TRUE, rest |-> TRUE] : s \in FetchStatuses}

\* response.ok
ResponseOk(status) == status >= 200 /\ status <= 299

\* csvStreamToKafka as its caller sees it: it resolves, or throws an
\* HttpError carrying the status, or throws another Error; publishBatch never
\* throws, so a publish failure is not an outcome of its own
csvStreamToKafka(io) ==
    IF ~io.connect THEN [kind |-> "Error", statusCode |-> 0]
    ELSE IF io.fetch = "rejected" THEN [kind |-> "Error", statusCode |-> 0]
    ELSE IF ~ResponseOk(io.status)
         THEN [kind |-> "HttpError", statusCode |-> io.status]
    ELSE IF ~io.body THEN [kind |-> "Error", statusCode |-> 0]
    ELSE IF ~io.rest THEN [kind |-> "Error", statusCode |-> 0]
    ELSE [kind |-> "resolved", statusCode |-> io.status]

\* isHttpError
isHttpError(err) == err.kind = "HttpError"

NoPromise == [state |-> "none", value |-> FALSE]
NoJobLog == [msg |-> "none", successful |-> 0, failed |-> 0, total |-> 0]

\* config.reportTypes.slice(i): every type that is left
Chunk_All(i) == {ReportTypes[k] : k \in {k \in 1..Len(ReportTypes) : k > i}}

\* config.reportTypes.slice(i, i + concurrent)
Chunk(i) == {ReportTypes[k] : k \in {k \in 1..Len(ReportTypes) :
                                        k > i /\ k <= i + maxConcurrentCsv}}

InitSched ==
    /\ jobState = "none"
    /\ invoker = "none"
    /\ cycles = 0
    /\ chunkStart = 0
    /\ tpc = [t \in Types |-> "queued"]
    /\ retryAttempts = [t \in Types |-> 0]
    /\ taskPromise = [t \in Types |-> NoPromise]
    /\ outcomes = [t \in Types |-> << >>]
    /\ taskLog = [t \in Types |-> "none"]
    /\ calls = [t \in Types |-> 0]
    /\ timerMs = [t \in Types |-> 0]
    /\ elapsedMs = [t \in Types |-> 0]
    /\ results = << >>
    /\ jobLog = NoJobLog

\* runJob up to its first await: a new Map and results array, then the
\* tasks of the first chunk run up to their call of csvStreamToKafka
RunJob(by) ==
    /\ jobState' = "running"
    /\ invoker' = by
    /\ cycles' = cycles + 1
    /\ chunkStart' = 0
    /\ retryAttempts' = [t \in Types |-> 0]
    /\ results' = << >>
    /\ jobLog' = NoJobLog
    /\ tpc' = [t \in Types |-> IF t \in Chunk(0) THEN "attempting"
                                                  ELSE "queued"]
    /\ calls' = [t \in Types |-> IF t \in Chunk(0) THEN 1 ELSE 0]
    /\ taskPromise' = [t \in Types |-> NoPromise]
    /\ outcomes' = [t \in Types |-> << >>]
    /\ taskLog' = [t \in Types |-> "Attempting CSV"]
    /\ timerMs' = [t \in Types |-> 0]
    /\ elapsedMs' = [t \in Types |-> 0]

\* startScheduler that only registers the cron job
StartScheduler_CronOnly ==
    /\ jobState = "none"
    /\ cycles = 0
    /\ jobState' = "finished"
    /\ UNCHANGED <<invoker, cycles, chunkStart, tpc, retryAttempts, taskPromise,
                   outcomes, taskLog, calls, timerMs, elapsedMs, results,
                   jobLog>>

\* startScheduler: the immediate runJob
StartScheduler ==
    /\ jobState = "none"
    /\ cycles = 0
    /\ RunJob("startup")

\* the cron callback: runJob again; the schedule is daily, the model fires
\* it once the previous cycle has logged its result
CronTick ==
    /\ jobState = "finished"
    /\ cycles < MaxCycles
    /\ RunJob("cron")

\* a return of processCsvWithFallback with its last log message
Return(success, message) ==
    [do |-> "return", success |-> success, message |-> message, delayMs |-> 0]

\* the test of the retry counter, off by one in either direction
RetryAllowed_OneLess(currentAttempt) == currentAttempt < maxFallbackAttempts - 1
RetryAllowed_OneMore(currentAttempt) == currentAttempt <= maxFallbackAttempts

\* the test of the retry counter against config.cron.maxFallbackAttempts
RetryAllowed(currentAttempt) == currentAttempt < maxFallbackAttempts

\* a non-HTTP error thrown on instead of being logged
OnNonHttpError_Rethrow ==
    [do |-> "throw", success |-> FALSE, message |-> "none", delayMs |-> 0]

\* the branch for network and other non-HTTP errors
OnNonHttpError == Return(FALSE, "Failed to process CSV")

\* a 404 reported as a success of the task
OnNotFound_Success == Return(TRUE, "CSV not found (404), skipping")

\* the branch for 404
OnNotFound == Return(FALSE, "CSV not found (404), skipping")

\* processCsvWithFallback after csvStreamToKafka settled with err (or
\* resolved): what the try block or the catch block does next
processCsvWithFallback(err, currentAttempt) ==
    IF err.kind = "resolved" THEN Return(TRUE, "Completed CSV")
    ELSE IF ~isHttpError(err) THEN OnNonHttpError
    ELSE IF isServerError(err.statusCode)
         THEN IF RetryAllowed(currentAttempt)
              THEN [do |-> "backoff", success |-> FALSE,
                    message |-> "Server error, retrying with exponential backoff",
                    delayMs |-> calculateFallbackDelay(currentAttempt,
                                                       fallbackIntervalMin)]
              ELSE Return(FALSE, "Max retry attempts reached")
    ELSE IF err.statusCode = NOT_FOUND THEN OnNotFound
    ELSE IF isClientError(err.statusCode) THEN Return(FALSE, "Client error")
    ELSE Return(FALSE, "HTTP error")

\* one task after its csvStreamToKafka call settled: it returns, which
\* fulfils its promise, or starts the backoff timer; an exception leaving
\* the async function would reject its promise
CsvSettle(t, io) ==
    /\ jobState = "running"
    /\ tpc[t] = "attempting"
    /\ LET err == csvStreamToKafka(io)
           next == processCsvWithFallback(err, retryAttempts[t])
       IN  /\ outcomes' = [outcomes EXCEPT ![t] = Append(@, err)]
           /\ taskLog' = [taskLog EXCEPT ![t] = next.message]
           /\ IF next.do = "backoff"
              THEN /\ timerMs' = [timerMs EXCEPT ![t] = next.delayMs]
                   /\ elapsedMs' = [elapsedMs EXCEPT ![t] = 0]
                   /\ tpc' = [tpc EXCEPT ![t] = "backoff"]
                   /\ UNCHANGED taskPromise
              ELSE /\ tpc' = [tpc EXCEPT ![t] = "done"]
                   /\ taskPromise' = [taskPromise EXCEPT ![t] =
                        IF next.do = "return"
                        THEN [state |-> "fulfilled", value |-> next.success]
                        ELSE [state |-> "rejected", value |-> FALSE]]
                   /\ UNCHANGED <<timerMs, elapsedMs>>
    /\ UNCHANGED <<jobState, invoker, cycles, chunkStart, retryAttempts, calls,
                   results, jobLog>>

\* the unit in which the model lets time pass
TickMs == fallbackIntervalMin * MS_PER_MINUTE

\* time passes for every pending setTimeout
Tick ==
    /\ \E t \in Types : tpc[t] = "backoff" /\ elapsedMs[t] < timerMs[t]
    /\ elapsedMs' = [t \in Types |->
          IF tpc[t] = "backoff" /\ elapsedMs[t] < timerMs[t]
          THEN elapsedMs[t] + TickMs ELSE elapsedMs[t]]
    /\ UNCHANGED <<jobState, invoker, cycles, chunkStart, tpc, retryAttempts,
                   taskPromise, outcomes, taskLog, calls, timerMs, results,
                   jobLog>>

\* delay(ms) resolves: the retry counter is stored and the recursive call
\* runs up to its call of csvStreamToKafka
TimerFire(t) ==
    /\ tpc[t] = "backoff"
    /\ elapsedMs[t] >= timerMs[t]
    /\ retryAttempts' = [retryAttempts EXCEPT ![t] = @ + 1]
    /\ calls' = [calls EXCEPT ![t] = @ + 1]
    /\ tpc' = [tpc EXCEPT ![t] = "attempting"]
    /\ taskLog' = [taskLog EXCEPT ![t] = "Attempting CSV"]
    /\ UNCHANGED <<jobState, invoker, cycles, chunkStart, taskPromise,
                   outcomes, timerMs, elapsedMs, results, jobLog>>

\* batchResults.forEach that keeps only the tasks that returned true
RECURSIVE PushResults_SkipFailed(_, _)
PushResults_SkipFailed(res, k) ==
    IF k > Len(ReportTypes) THEN res
    ELSE LET t == ReportTypes[k] IN
         IF t \in Chunk(chunkStart) /\ taskPromise[t].state = "fulfilled"
                                    /\ taskPromise[t].value
         THEN PushResults_SkipFailed(Append(res, [type |-> t, success |-> TRUE]),
                                     k + 1)
         ELSE PushResults_SkipFailed(res, k + 1)

\* batchResults.forEach of runJob: the values of the fulfilled promises
RECURSIVE PushResults(_, _)
PushResults(res, k) ==
    IF k > Len(ReportTypes) THEN res
    ELSE LET t == ReportTypes[k] IN
         IF t \in Chunk(chunkStart) /\ taskPromise[t].state = "fulfilled"
         THEN PushResults(Append(res, [type |-> t,
                                       success |-> taskPromise[t].value]), k + 1)
         ELSE PushResults(res, k + 1)

\* runJob after Promise.allSettled of the current chunk: the results are
\* collected, then the next chunk starts or the cycle result is logged
ChunkSettled ==
    /\ jobState = "running"
    /\ \A t \in Chunk(chunkStart) : tpc[t] = "done"
    /\ LET res == PushResults(results, 1)
           i == chunkStart + maxConcurrentCsv
       IN  /\ results' = res
           /\ chunkStart' = i
           /\ IF i < Len(ReportTypes)
              THEN /\ tpc' = [t \in Types |-> IF t \in Chunk(i)
                                              THEN "attempting" ELSE tpc[t]]
                   /\ calls' = [t \in Types |-> IF t \in Chunk(i)
                                                THEN 1 ELSE calls[t]]
                   /\ UNCHANGED <<jobState, jobLog>>
              ELSE /\ jobState' = "finished"
                   /\ jobLog' =
                        [msg |-> "CSV job finished",
                         successful |-> Cardinality({k \in DOMAIN res :
                                                       res[k].success}),
                         failed |-> Cardinality({k \in DOMAIN res :
                                                   ~res[k].success}),
                         total |-> Len(res)]
                   /\ UNCHANGED <<tpc, calls>>
    /\ UNCHANGED <<invoker, cycles, retryAttempts, taskPromise, outcomes,
                   taskLog, timerMs, elapsedMs>>

\* the scheduler leaves the other components alone
SchedFrame ==
    UNCHANGED <<cfgVars, pubVars, cliVars, csvVars, retryVars, procVars,
                ovVars>>

Startup == StartScheduler /\ SchedFrame
Cron == CronTick /\ SchedFrame
Settle ==
    /\ \E t \in Types, io \in IOs : CsvSettle(t, io)
    /\ SchedFrame
TimePasses == Tick /\ SchedFrame
Fire ==
    /\ \E t \in Types : TimerFire(t)
    /\ SchedFrame
Collect == ChunkSettled /\ SchedFrame

NextSched ==
    \/ Startup
    \/ Cron
    \/ Settle
    \/ TimePasses
    \/ Fire
    \/ Collect

----------------------------------------------------------------------------
(* csvStream.ts: one call of csvStreamToKafka.                             *)
(* The source holds three of them: the streaming one, which publishes     *)
(* batches while it decodes (unnamed/part_004), and two buffered ones,     *)
(* which publish the whole document at once (csv/csv-stream.ts, and        *)
(* unnamed/part_006, which also takes the report date).                    *)

Streaming == "streaming"
Buffered == "buffered"
BufferedDated == "bufferedDated"
Variants == {Streaming, Buffered, BufferedDated}

\* DATA_PROCESSING.DEFAULT_BATCH_SIZE
DEFAULT_BATCH_SIZE == 500

\* strings whose characters matter are sequences of one-character strings
Digits == <<"0", "1", "2", "3", "4", "5", "6", "7", "8", "9">>
IsDigit(ch) == \E d \in DOMAIN Digits : Digits[d] = ch
DigitValue(ch) == (CHOOSE d \in DOMAIN Digits : Digits[d] = ch) - 1

\* String.prototype.trim, over the blank
RECURSIVE trimStart(_)
trimStart(str) == IF str # << >> /\ Head(str) = " " THEN trimStart(Tail(str))
                                                     ELSE str
RECURSIVE trimEnd(_)
trimEnd(str) == IF str # << >> /\ str[Len(str)] = " "
                THEN trimEnd(SubSeq(str, 1, Len(str) - 1)) ELSE str
trim(str) == trimEnd(trimStart(str))

\* String.prototype.includes, for one character
includes(str, ch) == \E i \in DOMAIN str : str[i] = ch

\* String.prototype.padStart
RECURSIVE padStart(_, _, _)
padStart(str, targetLength, ch) ==
    IF Len(str) >= targetLength THEN str
    ELSE padStart(<<ch>> \o str, targetLength, ch)

\* String.prototype.slice with 0 <= start <= end
slice(str, start, end) ==
    SubSeq(str, start + 1, IF end < Len(str) THEN end ELSE Len(str))

\* the value of a string of decimal digits
RECURSIVE DecimalValue(_)
DecimalValue(str) ==
    IF str = << >> THEN 0
    ELSE 10 * DecimalValue(SubSeq(str, 1, Len(str) - 1))
            + DigitValue(str[Len(str)])

\* Number(string), over digits, blanks and letters: blank strings are 0,
\* anything with a letter is NaN
Number(str) ==
    LET t == trim(str) IN
    IF t = << >> THEN [nan |-> FALSE, v |-> 0]
    ELSE IF \A i \in DOMAIN t : IsDigit(t[i])
         THEN [nan |-> FALSE, v |-> DecimalValue(t)]
         ELSE [nan |-> TRUE, v |-> 0]

\* reportDate.toISOString().slice(0, 10) of the modelled report date
ReportDateStr == <<"2", "0", "2", "4", "-", "0", "4", "-", "2", "6">>

Midnight == <<"T", "0", "0", ":", "0", "0", ":", "0", "0", "Z">>

\* expandHHMMToISO, with the date already formatted
expandHHMMToISO(hhmm, dateStr) ==
    LET trimmed == trim(hhmm)
        padded  == padStart(trimmed, 4, "0")
        hours   == slice(padded, 0, 2)
        mins    == slice(padded, 2, 4)
        h       == Number(hours)
        m       == Number(mins)
    IN  IF includes(trimmed, "T") THEN trimmed
        ELSE IF Len(trimmed) < 3 THEN dateStr \o Midnight
        ELSE IF h.nan \/ m.nan \/ h.v < 0 \/ h.v > 23 \/ m.v < 0 \/ m.v > 59
             THEN dateStr \o Midnight
        ELSE dateStr \o <<"T">> \o hours \o <<":">> \o mins
                     \o <<":", "0", "0", "Z">>

\* the Time column of the rows of the modelled documents
TimeValues ==
    << <<"1", "5", "1", "0">>,
       <<"9", "3", "0">>,
       << >>,
       <<"2", "4", "6", "0">>,
       <<" ", "1", "2">>,
       <<"1", "5", "x", "0">>,
       ReportDateStr \o <<"T", "1", "5", ":", "1", "0", ":", "0", "0", "Z">> >>

\* the i-th row as csv-parser emits it: one value per column of the header
RawRow(i) == [Time     |-> TimeValues[((i - 1) % Len(TimeValues)) + 1],
              Location |-> i]

\* { ...row, [field]: value }
Spread(row, field, value) ==
    [f \in DOMAIN row \cup {field} |-> IF f = field THEN value ELSE row[f]]

\* what the 'data' handler pushes for a row
PushedRecord(row) ==
    IF csvVariant = Streaming THEN Spread(row, "type", csvType)
    ELSE IF csvVariant = Buffered THEN Spread(row, "eventType", csvType)
    ELSE LET time == IF row.Time # << >>
                     THEN expandHHMMToISO(row.Time, ReportDateStr)
                     ELSE row.Time
         IN  Spread(Spread(row, "Time", time), "eventType", csvType)

\* Array.prototype.slice in the place of splice: nothing is removed
afterSplice_Slice(rows, deleteCount) == rows

\* what csvRows.splice(0, deleteCount) leaves in csvRows
afterSplice(rows, deleteCount) == SubSeq(rows, deleteCount + 1, Len(rows))

\* what csvRows.splice(0, deleteCount) returns
splice(rows, deleteCount) ==
    SubSeq(rows, 1, IF deleteCount < Len(rows) THEN deleteCount ELSE Len(rows))

\* csvRows.length >= batchSize
BatchFull(length, size) == length >= size

NoCsvResult == [totalRows |-> 0, publishedRows |-> 0, dlqRows |-> 0,
                batchFailures |-> 0]

\* an HttpError without its status
HttpError_NoStatus(statusCode) == [kind |-> "HttpError", statusCode |-> 0]

\* new HttpError(message, statusCode)
HttpError(statusCode) == [kind |-> "HttpError", statusCode |-> statusCode]

\* new Error(message), and the errors the producer and fetch reject with
PlainError == [kind |-> "Error", statusCode |-> 0]
NoError == [kind |-> "none", statusCode |-> 0]

NoResponse == [status |-> 0, body |-> FALSE]

\* the call up to its first await: the producer is obtained and its
\* connect is called
InitCsvCall ==
    /\ csvType = "hail"
    /\ csvNext = 0
    /\ csvRows = << >>
    /\ csvResult = NoCsvResult
    /\ handed = << >>
    /\ cpos = "awaitConnect"
    /\ csvLogged = NoCsvResult
    /\ response = NoResponse
    /\ csvError = NoError
    /\ producerCalls = <<"connect">>

\* a call of the streaming variant with the default batch size on an empty
\* document
InitCsvDefault ==
    /\ csvVariant = Streaming
    /\ batchSize = DEFAULT_BATCH_SIZE
    /\ csvLen = 0
    /\ InitCsvCall

\* every variant, batch size and document length
InitCsvAny ==
    /\ csvVariant \in Variants
    /\ batchSize \in IF csvVariant = Streaming THEN 1..MaxBatchSize
                                                ELSE {DEFAULT_BATCH_SIZE}
    /\ csvLen \in 0..MaxRows
    /\ InitCsvCall

\* the connect of the producer has settled: fetch is called, or the call
\* rejects with the error of the connect
CsvConnectSettle(ok) ==
    /\ cpos = "awaitConnect"
    /\ IF ok
       THEN /\ cpos' = "awaitFetch"
            /\ UNCHANGED csvError
       ELSE /\ cpos' = "rejected"
            /\ csvError' = PlainError
    /\ UNCHANGED <<csvVariant, batchSize, csvType, csvLen, csvNext, csvRows,
                   csvResult, handed, csvLogged, response, producerCalls>>

\* fetch has settled: a rejected fetch, a response that is not ok and a
\* response without body end the call with an error; otherwise the
\* document is read
CsvFetchSettle(fetched, status, body) ==
    /\ cpos = "awaitFetch"
    /\ IF ~fetched
       THEN /\ cpos' = "rejected"
            /\ csvError' = PlainError
            /\ UNCHANGED response
       ELSE /\ response' = [status |-> status, body |-> body]
            /\ IF ~ResponseOk(status)
               THEN /\ cpos' = "rejected"
                    /\ csvError' = HttpError(status)
               ELSE IF ~body
               THEN /\ cpos' = "rejected"
                    /\ csvError' = PlainError
               ELSE /\ cpos' = "reading"
                    /\ UNCHANGED csvError
    /\ UNCHANGED <<csvVariant, batchSize, csvType, csvLen, csvNext, csvRows,
                   csvResult, handed, csvLogged, producerCalls>>

\* a publishBatch call on the first row only
Hand_FirstRow(rows, final) ==
    [rows |-> SubSeq(rows, 1, 1), state |-> "inflight", final |-> final]

\* a publishBatch call on the given rows, up to its await
Hand(rows, final) == [rows |-> rows, state |-> "inflight", final |-> final]

\* the 'data' handler up to its await: the record is pushed and, in the
\* streaming variant, a full buffer is spliced off and handed to publishBatch
CsvData ==
    /\ cpos = "reading"
    /\ csvNext < csvLen
    /\ csvNext' = csvNext + 1
    /\ LET pushed == Append(csvRows, PushedRecord(RawRow(csvNext + 1))) IN
       IF csvVariant = Streaming
       THEN /\ csvResult' = [csvResult EXCEPT !.totalRows = @ + 1]
            /\ IF BatchFull(Len(pushed), batchSize)
               THEN /\ csvRows' = afterSplice(pushed, batchSize)
                    /\ handed' = Append(handed,
                                   Hand(splice(pushed, batchSize), FALSE))
               ELSE /\ csvRows' = pushed
                    /\ UNCHANGED handed
       ELSE /\ csvRows' = pushed
            /\ UNCHANGED <<csvResult, handed>>
    /\ UNCHANGED <<csvVariant, batchSize, csvType, csvLen, cpos, csvLogged,
                   response, csvError, producerCalls>>

\* the body stream or the parser emits 'error': the call rejects with that
\* error, and nothing releases the producer
CsvReadError ==
    /\ cpos = "reading"
    /\ cpos' = "rejected"
    /\ csvError' = PlainError
    /\ UNCHANGED <<csvVariant, batchSize, csvType, csvLen, csvNext, csvRows,
                   csvResult, handed, csvLogged, response, producerCalls>>

\* an 'end' handler that returns at once on an empty document
CsvEnd_NoRelease ==
    /\ cpos = "reading"
    /\ csvNext = csvLen
    /\ IF Len(csvRows) > 0
       THEN /\ handed' = Append(handed, Hand(csvRows, TRUE))
            /\ cpos' = "awaitPublish"
            /\ UNCHANGED csvLogged
       ELSE /\ cpos' = "resolved"
            /\ csvLogged' = csvResult
            /\ UNCHANGED handed
    /\ csvResult' = IF csvVariant = Streaming THEN csvResult
                    ELSE [csvResult EXCEPT !.totalRows = Len(csvRows)]
    /\ UNCHANGED <<csvVariant, batchSize, csvType, csvLen, csvNext, csvRows,
                   response, csvError, producerCalls>>

\* the 'end' handler up to its first await: the remaining rows are handed
\* to publishBatch, or, with none, the producer is released at once
CsvEnd ==
    /\ cpos = "reading"
    /\ csvNext = csvLen
    /\ IF Len(csvRows) > 0
       THEN /\ handed' = Append(handed, Hand(csvRows, TRUE))
            /\ cpos' = "awaitPublish"
            /\ UNCHANGED producerCalls
       ELSE /\ cpos' = "awaitDisconnect"
            /\ producerCalls' = Append(producerCalls, "disconnect")
            /\ UNCHANGED handed
    /\ csvResult' = IF csvVariant = Streaming THEN csvResult
                    ELSE [csvResult EXCEPT !.totalRows = Len(csvRows)]
    /\ UNCHANGED <<csvVariant, batchSize, csvType, csvLen, csvNext, csvRows,
                   csvLogged, response, csvError>>

\* a publishBatch whose failure is thrown out of csvStreamToKafka
CsvBatchSettle_Throws(b, ok) ==
    /\ b \in DOMAIN handed
    /\ handed[b].state = "inflight"
    /\ handed' = [handed EXCEPT ![b].state = IF ok THEN "published" ELSE "failed"]
    /\ cpos' = IF ~ok THEN "rejected"
               ELSE IF handed[b].final THEN "awaitDisconnect" ELSE cpos
    /\ csvError' = IF ~ok THEN PlainError ELSE csvError
    /\ producerCalls' = IF ok /\ handed[b].final
                        THEN Append(producerCalls, "disconnect")
                        ELSE producerCalls
    /\ UNCHANGED <<csvVariant, batchSize, csvType, csvLen, csvNext, csvRows,
                   csvResult, csvLogged, response>>

\* publishBatch of the b-th batch has returned: the counters are updated,
\* and after the last batch the producer is released
CsvBatchSettle(b, ok) ==
    /\ b \in DOMAIN handed
    /\ handed[b].state = "inflight"
    /\ handed' = [handed EXCEPT ![b].state = IF ok THEN "published" ELSE "failed"]
    /\ LET n == Len(handed[b].rows) IN
       csvResult' =
          IF csvVariant = Streaming
          THEN IF ok THEN [csvResult EXCEPT !.publishedRows = @ + n]
                     ELSE [csvResult EXCEPT !.batchFailures = @ + 1,
                                            !.dlqRows = @ + n]
          ELSE [csvResult EXCEPT !.publishedRows = IF ok THEN n ELSE 0]
    /\ cpos' = IF handed[b].final THEN "awaitDisconnect" ELSE cpos
    /\ producerCalls' = IF handed[b].final
                        THEN Append(producerCalls, "disconnect")
                        ELSE producerCalls
    /\ UNCHANGED <<csvVariant, batchSize, csvType, csvLen, csvNext, csvRows,
                   csvLogged, response, csvError>>

\* the release of the producer has settled: the counts are logged and the
\* call resolves; a rejection leaves the streaming variant's 'end' handler
\* without settling the call, and rejects the buffered call
CsvDisconnectSettle(ok) ==
    /\ cpos = "awaitDisconnect"
    /\ IF ok
       THEN /\ cpos' = "resolved"
            /\ csvLogged' = csvResult
            /\ UNCHANGED csvError
       ELSE /\ cpos' = IF csvVariant = Streaming THEN "hung" ELSE "rejected"
            /\ csvError' = IF csvVariant = Streaming THEN csvError
                                                      ELSE PlainError
            /\ UNCHANGED csvLogged
    /\ UNCHANGED <<csvVariant, batchSize, csvType, csvLen, csvNext, csvRows,
                   csvResult, handed, response, producerCalls>>

\* the call leaves the other components alone
CsvFrame ==
    UNCHANGED <<cfgVars, pubVars, cliVars, schedVars, retryVars, procVars,
                ovVars>>

Connected ==
    /\ \E ok \in BOOLEAN : CsvConnectSettle(ok)
    /\ CsvFrame
Fetched ==
    /\ \E fetched \in BOOLEAN, status \in FetchStatuses, body \in BOOLEAN :
          CsvFetchSettle(fetched, status, body)
    /\ CsvFrame
Data == CsvData /\ CsvFrame
ReadFailed == CsvReadError /\ CsvFrame
End == CsvEnd /\ CsvFrame
BatchDone ==
    /\ \E b \in DOMAIN handed, ok \in BOOLEAN : CsvBatchSettle(b, ok)
    /\ CsvFrame
Released ==
    /\ \E ok \in BOOLEAN : CsvDisconnectSettle(ok)
    /\ CsvFrame

NextCsv ==
    \/ Connected
    \/ Fetched
    \/ Data
    \/ ReadFailed
    \/ End
    \/ BatchDone
    \/ Released

----------------------------------------------------------------------------
(* retry.ts: scheduleRetry, the one-time retry of the failed types *)

MS_PER_HOUR == 60 * 60 * 1000

\* the lists of failed types and the retry hours scheduleRetry is called with
FailedTypeLists == {<< >>, <<"hail">>, <<"hail", "wind">>,
                    <<"torn", "hail", "wind">>}
RetryHoursValues == (0 - 1)..MaxRetryHours

\* the step of the clock, and the time up to which the model lets it run
RetryTickMs == MS_PER_HOUR \div 2
MaxNowMs == (MaxRetryHours + 1) * MS_PER_HOUR

InitRetry ==
    /\ rpc = "idle"
    /\ failedTypes = << >>
    /\ retryHours = 0
    /\ nowMs = 0
    /\ scheduledAt = 0
    /\ retryTime = 0
    /\ callbackCalls = << >>
    /\ console = << >>

\* retryHours < 0: zero hours pass the test
InvalidRetryHours_Negative(hours) == hours < 0

\* retryHours <= 0
InvalidRetryHours(hours) == hours <= 0

\* scheduleRetry: it returns at once for an empty list or invalid hours,
\* otherwise it constructs the one-time Cron job for retryTime
ScheduleRetryCall(types, hours) ==
    /\ rpc = "idle"
    /\ nowMs + MaxRetryHours * MS_PER_HOUR <= MaxNowMs
    /\ failedTypes' = types
    /\ retryHours' = hours
    /\ scheduledAt' = nowMs
    /\ IF Len(types) = 0
       THEN /\ rpc' = "returned"
            /\ UNCHANGED <<retryTime, console>>
       ELSE IF InvalidRetryHours(hours)
       THEN /\ rpc' = "returned"
            /\ console' = Append(console,
                  [level |-> "warn", msg |-> "Invalid retry hours", hours |-> hours])
            /\ UNCHANGED retryTime
       ELSE /\ retryTime' = nowMs + hours * 60 * 60 * 1000
            /\ console' = Append(console,
                  [level |-> "log", msg |-> "Scheduling retry at", hours |-> hours])
            /\ rpc' = "scheduled"
    /\ UNCHANGED <<nowMs, callbackCalls>>

\* time passes
RetryTick ==
    /\ nowMs < MaxNowMs
    /\ nowMs' = nowMs + RetryTickMs
    /\ UNCHANGED <<rpc, failedTypes, retryHours, scheduledAt, retryTime,
                   callbackCalls, console>>

\* the Cron job fires at its date, once: the retryCallback is called with
\* the failed types and awaited
CronFire ==
    /\ rpc = "scheduled"
    /\ nowMs >= retryTime
    /\ console' = Append(console,
          [level |-> "log", msg |-> "Retry CSV job...", hours |-> retryHours])
    /\ callbackCalls' = Append(callbackCalls, failedTypes)
    /\ rpc' = "awaitCallback"
    /\ UNCHANGED <<failedTypes, retryHours, nowMs, scheduledAt, retryTime>>

\* the retryCallback has settled: a rejection is caught and logged, and the
\* job logs its completion
CallbackSettle(ok) ==
    /\ rpc = "awaitCallback"
    /\ console' = (IF ok THEN console
                   ELSE Append(console, [level |-> "error",
                          msg |-> "Error during retry callback",
                          hours |-> retryHours]))
                  \o << [level |-> "log", msg |-> "Retry job completed",
                         hours |-> retryHours] >>
    /\ rpc' = "completed"
    /\ UNCHANGED <<failedTypes, retryHours, nowMs, scheduledAt, retryTime,
                   callbackCalls>>

\* scheduleRetry leaves the other components alone
RetryFrame ==
    UNCHANGED <<cfgVars, pubVars, cliVars, schedVars, csvVars, procVars,
                ovVars>>

Schedule ==
    /\ \E types \in FailedTypeLists, hours \in RetryHoursValues :
          ScheduleRetryCall(types, hours)
    /\ RetryFrame
Clock == RetryTick /\ RetryFrame
RetryFire == CronFire /\ RetryFrame
RetryDone ==
    /\ \E ok \in BOOLEAN : CallbackSettle(ok)
    /\ RetryFrame

NextRetry ==
    \/ Schedule
    \/ Clock
    \/ RetryFire
    \/ RetryDone

----------------------------------------------------------------------------
(* index.ts: the shutdown handler of the process.                          *)
(* The pipeline at work is the csvStreamToKafka call of the csv component. *)

\* GRACEFUL_SHUTDOWN_TIMEOUT_MS
GRACEFUL_SHUTDOWN_TIMEOUT_MS == 10000

\* the unit in which the model lets time pass after a signal
ShutdownTickMs == 5000

Signals == {"SIGTERM", "SIGINT"}

\* exitCode while process.exit has not been called
NotExited == -1

\* the shutdown handler leaves the other components alone
ProcFrame ==
    UNCHANGED <<cfgVars, pubVars, cliVars, schedVars, csvVars, retryVars,
                ovVars>>

InitProc ==
    /\ exitCode = NotExited
    /\ signalsSeen = << >>
    /\ closePending = 0
    /\ shutdownTimers = << >>

\* shutdown(signal): healthServer.close is called with the callback that
\* exits with 0, and the timer of the forced exit is set
shutdown(signal) ==
    /\ exitCode = NotExited
    /\ Len(signalsSeen) < MaxSignals
    /\ signalsSeen' = Append(signalsSeen, signal)
    /\ closePending' = closePending + 1
    /\ shutdownTimers' = Append(shutdownTimers, 0)
    /\ UNCHANGED exitCode

\* the callback of healthServer.close: process.exit(0)
HealthServerClosed ==
    /\ exitCode = NotExited
    /\ closePending > 0
    /\ exitCode' = 0
    /\ UNCHANGED <<signalsSeen, closePending, shutdownTimers>>
    /\ ProcFrame

\* the callback of setTimeout: process.exit(1)
ForcedShutdown ==
    /\ exitCode = NotExited
    /\ \E i \in DOMAIN shutdownTimers :
          shutdownTimers[i] >= GRACEFUL_SHUTDOWN_TIMEOUT_MS
    /\ exitCode' = 1
    /\ UNCHANGED <<signalsSeen, closePending, shutdownTimers>>
    /\ ProcFrame

\* time passes for the pending timers; a timer that is due fires first
ShutdownTick ==
    /\ exitCode = NotExited
    /\ shutdownTimers # << >>
    /\ \A i \in DOMAIN shutdownTimers :
          shutdownTimers[i] < GRACEFUL_SHUTDOWN_TIMEOUT_MS
    /\ shutdownTimers' = [i \in DOMAIN shutdownTimers |->
                             shutdownTimers[i] + ShutdownTickMs]
    /\ UNCHANGED <<exitCode, signalsSeen, closePending>>
    /\ ProcFrame

Signalled ==
    /\ \E signal \in Signals : shutdown(signal)
    /\ ProcFrame

\* the pipeline runs as long as the process has not exited
Alive == exitCode = NotExited

LiveConnected == Alive /\ Connected
LiveFetched == Alive /\ Fetched
LiveData == Alive /\ Data
LiveReadFailed == Alive /\ ReadFailed
LiveEnd == Alive /\ End
LiveBatchDone == Alive /\ BatchDone
LiveReleased == Alive /\ Released

NextShutdown ==
    \/ LiveConnected
    \/ LiveFetched
    \/ LiveData
    \/ LiveReadFailed
    \/ LiveEnd
    \/ LiveBatchDone
    \/ LiveReleased
    \/ Signalled
    \/ HealthServerClosed
    \/ ForcedShutdown
    \/ ShutdownTick

----------------------------------------------------------------------------
(* scheduler.ts: runJob calls under a schedule whose ticks may fire while  *)
(* an earlier call is still at work. Every call has its own Map and its    *)
(* own loop variable.                                                      *)

Runs == 1..MaxRuns

\* the overlapping calls leave the other components alone
OverlapFrame ==
    UNCHANGED <<cfgVars, pubVars, cliVars, schedVars, csvVars, retryVars,
                procVars>>

InitOverlap ==
    /\ ovRuns = 0
    /\ ovJob = [r \in Runs |-> "none"]
    /\ ovChunk = [r \in Runs |-> 0]
    /\ ovTpc = [r \in Runs |-> [t \in Types |-> "queued"]]
    /\ ovAttempts = [r \in Runs |-> [t \in Types |-> 0]]

\* the r-th runJob call up to its first await: a new Map, then the tasks of
\* the first chunk run up to their call of csvStreamToKafka
OvRunJob(r) ==
    /\ r = ovRuns + 1
    /\ r \in Runs
    /\ ovRuns' = r
    /\ ovJob' = [ovJob EXCEPT ![r] = "running"]
    /\ ovChunk' = [ovChunk EXCEPT ![r] = 0]
    /\ ovAttempts' = [ovAttempts EXCEPT ![r] = [t \in Types |-> 0]]
    /\ ovTpc' = [ovTpc EXCEPT ![r] =
                    [t \in Types |-> IF t \in Chunk(0) THEN "attempting"
                                                       ELSE "queued"]]

\* startScheduler: the immediate runJob
OvStartScheduler ==
    /\ ovRuns = 0
    /\ OvRunJob(1)
    /\ OverlapFrame

\* the cron callback: runJob again, whatever the earlier calls are doing
OvCronTick ==
    /\ ovRuns >= 1
    /\ OvRunJob(ovRuns + 1)
    /\ OverlapFrame

\* a task of the r-th call after its csvStreamToKafka call settled
OvCsvSettle(r, t, io) ==
    /\ ovJob[r] = "running"
    /\ ovTpc[r][t] = "attempting"
    /\ LET next == processCsvWithFallback(csvStreamToKafka(io),
                                          ovAttempts[r][t])
       IN  ovTpc' = [ovTpc EXCEPT ![r][t] =
                        IF next.do = "backoff" THEN "backoff" ELSE "done"]
    /\ UNCHANGED <<ovRuns, ovJob, ovChunk, ovAttempts>>

\* delay(ms) of a task of the r-th call resolves: the counter is stored in
\* the Map of that call and the recursive call runs up to csvStreamToKafka
OvTimerFire(r, t) ==
    /\ ovJob[r] = "running"
    /\ ovTpc[r][t] = "backoff"
    /\ ovAttempts' = [ovAttempts EXCEPT ![r][t] = @ + 1]
    /\ ovTpc' = [ovTpc EXCEPT ![r][t] = "attempting"]
    /\ UNCHANGED <<ovRuns, ovJob, ovChunk>>

\* the r-th call after Promise.allSettled of its current chunk
OvChunkSettled(r) ==
    /\ ovJob[r] = "running"
    /\ \A t \in Chunk(ovChunk[r]) : ovTpc[r][t] = "done"
    /\ LET i == ovChunk[r] + maxConcurrentCsv IN
       /\ ovChunk' = [ovChunk EXCEPT ![r] = i]
       /\ IF i < Len(ReportTypes)
          THEN /\ ovTpc' = [ovTpc EXCEPT ![r] =
                              [t \in Types |-> IF t \in Chunk(i)
                                               THEN "attempting"
                                               ELSE ovTpc[r][t]]]
               /\ UNCHANGED ovJob
          ELSE /\ ovJob' = [ovJob EXCEPT ![r] = "finished"]
               /\ UNCHANGED ovTpc
    /\ UNCHANGED <<ovRuns, ovAttempts>>

OvSettle ==
    /\ \E r \in Runs, t \in Types, io \in IOs : OvCsvSettle(r, t, io)
    /\ OverlapFrame
OvFire ==
    /\ \E r \in Runs, t \in Types : OvTimerFire(r, t)
    /\ OverlapFrame
OvCollect ==
    /\ \E r \in Runs : OvChunkSettled(r)
    /\ OverlapFrame

NextOverlap ==
    \/ OvStartScheduler
    \/ OvCronTick
    \/ OvSettle
    \/ OvFire
    \/ OvCollect

----------------------------------------------------------------------------
(* Specifications *)

\* config.maxConcurrentCsv and config.dlq.enabled by default
DefaultMaxConcurrentCsv == 3
DefaultDlqEnabled == TRUE

\* the scheduler under every concurrency limit
Init ==
    /\ dlqEnabled = DefaultDlqEnabled
    /\ maxConcurrentCsv \in 1..MaxConcurrent
    /\ InitPublish /\ InitClient /\ InitSched /\ InitCsvDefault /\ InitRetry
    /\ InitProc /\ InitOverlap

\* the publisher with dead-lettering enabled or disabled
InitPub ==
    /\ dlqEnabled \in BOOLEAN
    /\ maxConcurrentCsv = DefaultMaxConcurrentCsv
    /\ InitPublish /\ InitClient /\ InitSched /\ InitCsvDefault /\ InitRetry
    /\ InitProc /\ InitOverlap

\* the connection manager
InitCli ==
    /\ dlqEnabled = DefaultDlqEnabled
    /\ maxConcurrentCsv = DefaultMaxConcurrentCsv
    /\ InitPublish /\ InitClient /\ InitSched /\ InitCsvDefault /\ InitRetry
    /\ InitProc /\ InitOverlap

\* the scheduler
Next == NextSched
Spec == Init /\ [][Next]_vars

\* every awaited fetch settles, time passes and timers fire
FairSpec ==
    /\ Spec
    /\ WF_vars(Startup)
    /\ WF_vars(Settle)
    /\ WF_vars(TimePasses)
    /\ WF_vars(Fire)
    /\ WF_vars(Collect)

\* the publisher with its dead-letter cascade
SpecPublish == InitPub /\ [][NextPublish]_vars

\* every awaited send, mkdir and writeFile settles
FairSpecPublish ==
    /\ SpecPublish
    /\ WF_vars(PrimarySend)
    /\ WF_vars(DlqSend)
    /\ WF_vars(Mkdir)
    /\ WF_vars(WriteFile)

\* the broker connection manager
SpecClient == InitCli /\ [][NextClient]_vars

\* the client called in any order
SpecClientAny == InitCli /\ [][NextClientAny]_vars

\* one csvStreamToKafka call on a fetched document
InitCsv ==
    /\ dlqEnabled = DefaultDlqEnabled
    /\ maxConcurrentCsv = DefaultMaxConcurrentCsv
    /\ InitPublish /\ InitClient /\ InitSched /\ InitCsvAny /\ InitRetry
    /\ InitProc /\ InitOverlap

SpecCsv == InitCsv /\ [][NextCsv]_vars

\* one scheduleRetry call; time passes and the Cron job fires at its date
SpecRetry == InitCli /\ [][NextRetry]_vars

FairSpecRetry ==
    /\ SpecRetry
    /\ WF_vars(Clock)
    /\ WF_vars(RetryFire)

\* one csvStreamToKafka call at work while the process is told to stop
SpecShutdown == InitCsv /\ [][NextShutdown]_vars

\* runJob calls under any schedule, one task at a time
InitOv ==
    /\ dlqEnabled = DefaultDlqEnabled
    /\ maxConcurrentCsv = 1
    /\ InitPublish /\ InitClient /\ InitSched /\ InitCsvDefault /\ InitRetry
    /\ InitProc /\ InitOverlap

SpecOverlap == InitOv /\ [][NextOverlap]_vars

----------------------------------------------------------------------------
(* Terminal outcomes of a record, read off the effects of the publisher *)

\* the settled sends of all publishBatch calls
Sends == UNION {{<<c, i>> : i \in DOMAIN sendLog[c]} : c \in Calls}

\* the log entries of all publishBatch calls
LogEntries == UNION {{<<c, i>> : i \in DOMAIN log[c]} : c \in Calls}

\* successful sends on the primary topic that carry record r
PrimaryDelivered(r) ==
    Cardinality({e \in Sends :
        LET s == sendLog[e[1]][e[2]] IN
        /\ s.ok /\ s.topic = Topic
        /\ \E k \in DOMAIN s.messages : s.messages[k].value = JSONstringify(r)})

\* successful sends on the dead-letter topic that carry an envelope of r
DlqDelivered(r) ==
    Cardinality({e \in Sends :
        LET s == sendLog[e[1]][e[2]] IN
        /\ s.ok /\ s.topic = DlqTopic
        /\ \E k \in DOMAIN s.messages :
              s.messages[k].value.json.originalMessage = r})

\* fallback file writes that contain an envelope of r
FilePersisted(r) ==
    Cardinality({i \in DOMAIN fileWrites :
        \E k \in DOMAIN fileWrites[i].content.json.failedMessages :
            fileWrites[i].content.json.failedMessages[k].originalMessage = r})

\* critical lost-messages logs that report the batch of call c
LostLogged(c) ==
    Cardinality({e \in LogEntries :
        /\ log[e[1]][e[2]].msg = "Lost DLQ messages"
        /\ log[e[1]][e[2]].lostCount = Len(batch[c])
        /\ log[e[1]][e[2]].firstMessage.metadata.batchId = batchId[c]})

\* terminal outcomes recorded for the k-th record of the batch of call c
TerminalOutcomes(c, k) ==
    PrimaryDelivered(batch[c][k]) + DlqDelivered(batch[c][k])
        + FilePersisted(batch[c][k]) + LostLogged(c)

----------------------------------------------------------------------------
(* Claims *)

C1_Outcomes ==
    \A c \in Calls : \A k \in DOMAIN batch[c] :
        /\ TerminalOutcomes(c, k) <= 1
        /\ ppc[c] = "returned" =>
              TerminalOutcomes(c, k) =
                  IF dlqEnabled \/ result[c].successful THEN 1 ELSE 0
        /\ (ppc[c] = "returned" /\ ~dlqEnabled /\ ~result[c].successful) =>
              \E i \in DOMAIN log[c] : log[c][i].msg = "Kafka publish failed"

C2_Theorem ==
    releases = 0 =>
        /\ acquires >= 1 => connectCalls = 1
        /\ nextInstance <= 1
        /\ \A p, q \in Callers : (got[p] # 0 /\ got[q] # 0) => got[p] = got[q]

\* all callers called connectProducer while the first connect was in flight
\* and all hold the same producer after a single underlying connect
C2_Witness ==
    /\ releases = 0
    /\ connectCalls = 1
    /\ \A p \in Callers :
        /\ cpc[p] = "holding"
        /\ awaiting[p].kind = "promise"
        /\ got[p] = 1

\* the N connectProducer calls were all issued before the first release
C3_Scenario ==
    ~lateAcquire =>
        /\ releases < acquires =>
              /\ disconnectCalls = 0
              /\ (\E q \in DOMAIN promises : promises[q].state = "fulfilled")
                    => producerConnected /\ producerInstance # 0
        /\ (releases = acquires /\ acquires > 0) => disconnectCalls = 1

\* one step of the client seen from the reference count
C3_Step ==
    /\ disconnectCalls' # disconnectCalls =>
          /\ disconnectCalls' = disconnectCalls + 1
          /\ refCount = 1 /\ refCount' = 0
    /\ (releases' # releases /\ refCount > 1) =>
          /\ disconnectCalls' = disconnectCalls
          /\ producerConnected' = producerConnected
          /\ producerInstance' = producerInstance

\* C3: after N connectProducer calls, each of the first N-1 releases leaves
\* the connection established and calls no underlying disconnect, the N-th
\* release calls it exactly once; the underlying disconnect is only ever
\* called by the release that brings the reference count to zero.
C3_Theorem == []C3_Scenario /\ [][C3_Step]_vars

\* three callers connected and released in turn: one underlying disconnect
C3_Witness ==
    /\ ~lateAcquire
    /\ acquires = 3 /\ releases = 3
    /\ disconnectCalls = 1
    /\ \A p \in Callers : got[p] = 1

----------------------------------------------------------------------------
(* Outcomes of the fetches of a source-type task *)

Is5xx(o) == o.kind = "HttpError" /\ o.statusCode >= 500 /\ o.statusCode <= 599
Is404(o) == o.kind = "HttpError" /\ o.statusCode = 404
IsOther4xx(o) ==
    o.kind = "HttpError" /\ o.statusCode >= 400 /\ o.statusCode <= 499
        /\ o.statusCode # 404
IsTransport(o) == o.kind = "Error"

All5xx(h) == \A i \in DOMAIN h : Is5xx(h[i])
Last(h) == h[Len(h)]
Front(h) == SubSeq(h, 1, Len(h) - 1)

\* the entries of the cycle result for type t
Counted(t, success) ==
    Cardinality({k \in DOMAIN results :
        results[k].type = t /\ results[k].success = success})

\* the task of type t has returned with the given success flag and, once the
\* cycle has ended, is counted once, under that flag
EndedAs(t, success) ==
    /\ tpc[t] = "done"
    /\ taskPromise[t] = [state |-> "fulfilled", value |-> success]
    /\ calls[t] = Len(outcomes[t])
    /\ jobState = "finished" =>
          Counted(t, success) = 1 /\ Counted(t, ~success) = 0

\* C4: a task whose fetches have returned 5xx k times, 1 <= k <=
\* maxFallbackAttempts, is not over: it waits in backoff or runs attempt
\* k+1; and when a 200 follows the k 5xx answers, the task has made exactly
\* k+1 attempts and is counted as successful.
C4_Theorem ==
    \A t \in Types :
        LET h == outcomes[t] IN
        /\ (Len(h) >= 1 /\ Len(h) <= maxFallbackAttempts /\ All5xx(h)) =>
              \/ tpc[t] = "backoff" /\ calls[t] = Len(h)
              \/ tpc[t] = "attempting" /\ calls[t] = Len(h) + 1
        /\ (Len(h) >= 2 /\ Last(h).kind = "resolved") =>
              /\ All5xx(Front(h))
              /\ Len(h) <= maxFallbackAttempts + 1
              /\ EndedAs(t, TRUE)

\* a cycle has ended in which one type got maxFallbackAttempts 5xx answers
\* and then a 200: maxFallbackAttempts + 1 attempts, counted as successful
C4_Witness ==
    \E t \in Types :
        /\ jobState = "finished"
        /\ Len(outcomes[t]) = maxFallbackAttempts + 1
        /\ All5xx(Front(outcomes[t]))
        /\ Last(outcomes[t]).kind = "resolved"
        /\ calls[t] = maxFallbackAttempts + 1
        /\ Counted(t, TRUE) = 1
        /\ jobLog.successful >= 1

\* C5: a task never makes more than maxFallbackAttempts + 1 fetch attempts
\* in a cycle; a task that ended on a 5xx has made exactly that many, all
\* answered 5xx, and is counted as failed.
C5_Theorem ==
    \A t \in Types :
        LET h == outcomes[t] IN
        /\ calls[t] <= maxFallbackAttempts + 1
        /\ Len(h) <= maxFallbackAttempts + 1
        /\ (Len(h) = maxFallbackAttempts + 1 /\ All5xx(h)) => EndedAs(t, FALSE)
        /\ (tpc[t] = "done" /\ Len(h) >= 1 /\ Is5xx(Last(h))) =>
              /\ Len(h) = maxFallbackAttempts + 1
              /\ All5xx(h)
              /\ taskLog[t] = "Max retry attempts reached"

\* a cycle has ended in which every fetch of one type returned 5xx
C5_Witness ==
    \E t \in Types :
        /\ jobState = "finished"
        /\ Len(outcomes[t]) = maxFallbackAttempts + 1
        /\ All5xx(outcomes[t])
        /\ calls[t] = maxFallbackAttempts + 1
        /\ Counted(t, FALSE) = 1

C7_Theorem ==
    \A t \in Types :
        LET h == outcomes[t] IN
        /\ (Len(h) >= 1 /\ (IsOther4xx(Last(h)) \/ IsTransport(Last(h)))) =>
              /\ EndedAs(t, FALSE)
              /\ taskLog[t] \in {"Client error", "Failed to process CSV"}
        /\ \A i \in DOMAIN h :
              (IsOther4xx(h[i]) \/ IsTransport(h[i])) => i = Len(h)

\* one type met a transport error on its second attempt, another a 400 on
\* its third
C7_Witness ==
    \E t, u \in Types :
        /\ t # u
        /\ tpc[t] = "done" /\ Len(outcomes[t]) = 2 /\ IsTransport(outcomes[t][2])
        /\ tpc[u] = "done" /\ Len(outcomes[u]) = 3 /\ IsOther4xx(outcomes[u][3])

\* the delays of the retry strategy with a 30-minute base, in milliseconds
DocumentedDelays == <<1800000, 3600000, 7200000>>

\* the timer of a task in backoff
C8_Delay ==
    \A t \in Types :
        tpc[t] = "backoff" =>
            /\ Len(outcomes[t]) \in DOMAIN DocumentedDelays
            /\ timerMs[t] = DocumentedDelays[Len(outcomes[t])]
            /\ timerMs[t] = fallbackIntervalMin * Pow2(Len(outcomes[t]) - 1)
                               * MS_PER_MINUTE

\* a retry is an attempt after the first of a cycle
C8_Retry ==
    \A t \in Types :
        (cycles' = cycles /\ calls[t] >= 1 /\ calls'[t] = calls[t] + 1) =>
            /\ tpc[t] = "backoff"
            /\ elapsedMs[t] >= timerMs[t]
            /\ retryAttempts'[t] = calls[t]

C9_AsStated ==
    \A t, u \in Types :
        (jobState = "running" /\ t # u /\ tpc[u] \in {"backoff", "attempting"})
            => tpc[t] # "queued"

\* no task promise is ever rejected, and a cycle that has ended has logged
\* a result that counts the returned tasks
C10_Contained ==
    /\ \A t \in Types : taskPromise[t].state # "rejected"
    /\ jobState = "finished" =>
          /\ jobLog.msg = "CSV job finished"
          /\ \A t \in Types : tpc[t] = "done" /\ taskPromise[t].state = "fulfilled"
          /\ jobLog.total = Len(ReportTypes)

C11_Theorem ==
    jobState = "finished" =>
        /\ jobLog.successful + jobLog.failed = jobLog.total
        /\ jobLog.total = Len(ReportTypes)
        /\ Len(results) = Len(ReportTypes)
        /\ \A t \in Types : Counted(t, TRUE) + Counted(t, FALSE) = 1
        /\ jobLog.successful = Cardinality({t \in Types : Counted(t, TRUE) = 1})
        /\ jobLog.failed = Cardinality({t \in Types : Counted(t, FALSE) = 1})

\* a cycle run in two chunks has ended with two successes and one failure
C11_Witness ==
    /\ jobState = "finished"
    /\ maxConcurrentCsv = 2
    /\ jobLog.successful = 2 /\ jobLog.failed = 1 /\ jobLog.total = 3

----------------------------------------------------------------------------
(* Batches of the streaming csvStreamToKafka *)

\* ceil(n / b)
Ceil(n, b) == (n + b - 1) \div b

\* the sizes of the first k batches handed to publishBatch, summed
RECURSIVE SumSizes(_)
SumSizes(k) == IF k = 0 THEN 0 ELSE SumSizes(k - 1) + Len(handed[k].rows)

\* the rows of the document decoded into the k-th record of the b-th batch
RowsIn(b, k) == {i \in 1..csvLen : handed[b].rows[k].Location = i}

\* the 'end' handler of the document has run
EndSeen ==
    \/ cpos \in {"awaitPublish", "awaitDisconnect", "resolved", "hung"}
    \/ cpos = "rejected" /\ Len(producerCalls) = 2

----------------------------------------------------------------------------
(* The sends and file operations of one publishBatch / publishToDLQ call *)

\* the settled sends of call c on a topic
SendsOn(c, topic) == {i \in DOMAIN sendLog[c] : sendLog[c][i].topic = topic}

\* the primary send of call c has failed
PrimaryFailed(c) == \E i \in SendsOn(c, Topic) : ~sendLog[c][i].ok

\* the dead-letter send of call c has failed
DlqFailed(c) == \E i \in SendsOn(c, DlqTopic) : ~sendLog[c][i].ok

\* publishToDLQ has been entered by call c
EnteredDLQ(c) ==
    \/ entry[c] = "publishToDLQ" /\ ppc[c] # "idle"
    \/ entry[c] = "publishBatch" /\ PrimaryFailed(c)

\* the fs calls of call c with the given operation
FsCallsOf(c, op) == {i \in DOMAIN fsCalls[c] : fsCalls[c][i].op = op}

\* the fallback file writes that hold an envelope of call c
FilesOf(c) ==
    {i \in DOMAIN fileWrites :
        \E k \in DOMAIN fileWrites[i].content.json.failedMessages :
            \E j \in DOMAIN dlqMessages[c] :
                fileWrites[i].content.json.failedMessages[k] = dlqMessages[c][j]}

\* C13: publishBatch reports a whole batch or nothing: publishedCount is the
\* batch size when successful = true and 0 when successful = false; a batch
\* is sent to the primary topic at most once and always whole, and
\* successful = true is reported only when no primary send failed and every
\* record of the batch was carried by the one send that succeeded (the empty
\* batch, whole and nothing at once, is reported successful with count 0
\* without a send).
C13_Theorem ==
    \A c \in Calls :
        entry[c] = "publishBatch" =>
            /\ Cardinality(SendsOn(c, Topic)) <= 1
            /\ \A i \in SendsOn(c, Topic) :
                  /\ Len(sendLog[c][i].messages) = Len(batch[c])
                  /\ \A k \in DOMAIN batch[c] :
                        sendLog[c][i].messages[k].value = JSONstringify(batch[c][k])
            /\ ppc[c] = "returned" =>
                  /\ result[c].successful =>
                        /\ result[c].publishedCount = Len(batch[c])
                        /\ ~PrimaryFailed(c)
                        /\ Len(batch[c]) > 0 =>
                              \E i \in SendsOn(c, Topic) : sendLog[c][i].ok
                  /\ ~result[c].successful =>
                        /\ result[c].publishedCount = 0
                        /\ Len(batch[c]) > 0
                        /\ PrimaryFailed(c)

\* one call has reported its batch of two records published, another its
\* batch of two records not published
C13_Witness ==
    \E c, d \in Calls :
        /\ entry[c] = "publishBatch" /\ entry[d] = "publishBatch"
        /\ ppc[c] = "returned" /\ ppc[d] = "returned"
        /\ Len(batch[c]) = 2 /\ Len(batch[d]) = 2
        /\ result[c].successful /\ result[c].publishedCount = 2
        /\ ~result[d].successful /\ result[d].publishedCount = 0

\* the attempts publishBatch may make on the primary topic
MaxPublishAttempts == 3

\* C14 (as stated): publishBatch sends a non-empty batch to the primary topic
\* at most 3 times, retries a failed first and a failed second attempt, and
\* reports the batch as not published only after the third failure.
C14_AsStated ==
    \A c \in Calls :
        (entry[c] = "publishBatch" /\ Len(batch[c]) > 0) =>
            /\ Cardinality(SendsOn(c, Topic)) <= MaxPublishAttempts
            /\ (ppc[c] = "returned" /\ ~result[c].successful) =>
                  Cardinality(SendsOn(c, Topic)) = MaxPublishAttempts
            /\ (PrimaryFailed(c) /\ Cardinality(SendsOn(c, Topic)) < MaxPublishAttempts)
                  => ppc[c] = "awaitSend"

\* C15: when the primary publish of a batch has failed, every record of the
\* batch is, exactly once and with unmodified content, the originalMessage
\* of a dead-letter envelope; the envelopes of the batch carry the batchId
\* of the batch, batches differ in their batchId, every envelope has
\* attemptNumber >= 1 and the primary topic as originalTopic; what is sent
\* to the dead-letter topic and written to a fallback file are these
\* envelopes.
C15_Theorem ==
    /\ \A c \in Calls :
          (entry[c] = "publishBatch" /\ PrimaryFailed(c)) =>
              /\ Len(dlqMessages[c]) = Len(batch[c])
              /\ \A k \in DOMAIN batch[c] :
                    /\ Cardinality({j \in DOMAIN dlqMessages[c] :
                          dlqMessages[c][j].originalMessage = batch[c][k]}) = 1
                    /\ dlqMessages[c][k].originalMessage = batch[c][k]
                    /\ dlqMessages[c][k].metadata.batchId = batchId[c]
                    /\ dlqMessages[c][k].metadata.attemptNumber >= 1
                    /\ dlqMessages[c][k].metadata.originalTopic = Topic
              /\ \A i \in SendsOn(c, DlqTopic) :
                    /\ Len(sendLog[c][i].messages) = Len(batch[c])
                    /\ \A k \in DOMAIN batch[c] :
                          /\ sendLog[c][i].messages[k].value.json.originalMessage
                                = batch[c][k]
                          /\ sendLog[c][i].messages[k].value.json.metadata.batchId
                                = batchId[c]
                          /\ sendLog[c][i].messages[k].key = batchId[c]
    /\ \A c, d \in Calls :
          (c # d /\ entry[c] = "publishBatch" /\ entry[d] = "publishBatch"
                 /\ Len(batch[c]) > 0 /\ Len(batch[d]) > 0)
              => batchId[c] # batchId[d]
    /\ \A c \in Calls :
          (entry[c] = "publishBatch" /\ ~PrimaryFailed(c)) => dlqMessages[c] = << >>

\* the primary publish of two batches of two records has failed; the
\* envelopes of one were delivered to the dead-letter topic
C15_Witness ==
    \E c, d \in Calls :
        /\ c # d
        /\ entry[c] = "publishBatch" /\ entry[d] = "publishBatch"
        /\ PrimaryFailed(c) /\ PrimaryFailed(d)
        /\ Len(dlqMessages[c]) = 2 /\ Len(dlqMessages[d]) = 2
        /\ ppc[c] = "returned" /\ result[c].dlqCount = 2

LossLogged(c) ==
    /\ \E i \in DOMAIN log[c] :
          /\ log[c][i].msg = "CRITICAL: Failed to write DLQ fallback file"
          /\ log[c][i].level = "error"
    /\ \E i \in DOMAIN log[c] :
          /\ log[c][i].msg = "Lost DLQ messages"
          /\ log[c][i].lostCount = Len(dlqMessages[c])
          /\ log[c][i].firstMessage = dlqMessages[c][1]

\* no call is ever left by an exception, a failed fs call is logged as a
\* loss, and a call that has returned has its result
C17_Contained ==
    \A c \in Calls :
        /\ ppc[c] \in {"idle", "awaitSend", "awaitDlqSend", "awaitMkdir",
                       "awaitWriteFile", "returned"}
        /\ (\E i \in DOMAIN fsCalls[c] : ~fsCalls[c][i].ok) =>
              /\ LossLogged(c)
              /\ ppc[c] = "returned"
              /\ dlqReturn[c] = 0
        /\ (ppc[c] = "returned" /\ entry[c] = "publishBatch") =>
              /\ result[c] # NoResult
              /\ result[c].publishedCount >= 0 /\ result[c].dlqCount >= 0

\* the step in which fs.mkdir or fs.writeFile fails is the step in which
\* the call returns
C17_Step ==
    \A c \in Calls :
        (Len(fsCalls'[c]) > Len(fsCalls[c])
            /\ ~fsCalls'[c][Len(fsCalls'[c])].ok) =>
                /\ ppc'[c] = "returned"
                /\ entry[c] = "publishBatch" =>
                      result'[c] = [successful |-> FALSE, publishedCount |-> 0,
                                    dlqCount |-> 0]

\* C17: if the directory creation or the file write fails too, the loss is
\* logged with the lost count and a sample envelope and the call returns at
\* that very step; writeDLQToFile, publishToDLQ and publishBatch never
\* reject, and publishBatch returns a result whatever the primary send, the
\* dead-letter send, the directory creation and the file write did.
C17_Theorem == []C17_Contained /\ [][C17_Step]_vars

\* one call lost its batch on a failed directory creation, another on a
\* failed file write; both have returned their result
C17_Witness ==
    \E c, d \in Calls :
        /\ entry[c] = "publishBatch" /\ entry[d] = "publishBatch"
        /\ ppc[c] = "returned" /\ ppc[d] = "returned"
        /\ \E i \in FsCallsOf(c, "mkdir") : ~fsCalls[c][i].ok
        /\ \E i \in FsCallsOf(d, "writeFile") : ~fsCalls[d][i].ok
        /\ LossLogged(c) /\ LossLogged(d)

\* a call that entered publishToDLQ with dead-lettering disabled or with an
\* empty list has returned 0 and left no trace
C18_NoEffect ==
    \A c \in Calls :
        (EnteredDLQ(c) /\ (~dlqEnabled \/ Len(dlqMessages[c]) = 0)) =>
            /\ ppc[c] = "returned"
            /\ dlqReturn[c] = 0
            /\ SendsOn(c, DlqTopic) = {}
            /\ fsCalls[c] = << >>
            /\ FilesOf(c) = {}
            /\ \A i \in DOMAIN log[c] : log[c][i].msg # "Publishing messages to DLQ"

\* the step in which publishToDLQ is called on its own
C18_Step ==
    \A c \in Calls :
        (ppc[c] = "idle" /\ entry'[c] = "publishToDLQ"
            /\ (~dlqEnabled \/ Len(dlqMessages'[c]) = 0)) =>
                /\ ppc'[c] = "returned"
                /\ dlqReturn'[c] = 0
                /\ UNCHANGED <<sendLog, fileWrites, fsCalls, log, wallClock,
                               filepath>>

\* C18: if dead-lettering is disabled by configuration, or the list of
\* envelopes is empty, publishToDLQ returns 0 at once and without side
\* effect: no send to the dead-letter topic, no directory creation, no file
\* write.
C18_Theorem == []C18_NoEffect /\ [][C18_Step]_vars

\* with dead-lettering enabled, publishToDLQ was called with an empty list
\* and returned 0, while another call dead-lettered its batch
C18_Witness ==
    /\ dlqEnabled
    /\ \E c, d \in Calls :
        /\ entry[c] = "publishToDLQ"
        /\ dlqMessages[c] = << >>
        /\ ppc[c] = "returned" /\ dlqReturn[c] = 0
        /\ SendsOn(d, DlqTopic) # {}

\* C19 (as stated): no two fallback writes target the same file name, so no
\* fallback file is overwritten.
C19_AsStated ==
    \A i, j \in DOMAIN fileWrites :
        i # j => fileWrites[i].filepath # fileWrites[j].filepath

\* C20 (as stated): every record handed to the publisher is the parsed row
\* with every field name and every value unchanged, plus exactly one
\* injected field that holds the source type.
C20_AsStated ==
    \A b \in DOMAIN handed : \A k \in DOMAIN handed[b].rows :
        LET r   == handed[b].rows[k]
            raw == RawRow(r.Location)
        IN  /\ DOMAIN raw \subseteq DOMAIN r
            /\ Cardinality(DOMAIN r \ DOMAIN raw) = 1
            /\ \A f \in DOMAIN r \ DOMAIN raw : r[f] = csvType
            /\ \A f \in DOMAIN raw : r[f] = raw[f]

----------------------------------------------------------------------------
(* The readiness signal and the life of the producer instance *)

\* isProducerConnected()
isProducerConnected == producerConnected

\* C21 (as stated): isProducerConnected() is false before any connection,
\* true once a connectProducer call has resolved and for as long as the
\* caller holds its reference, and false once the release that called the
\* underlying disconnect has completed and nothing has connected since.
C21_AsStated ==
    /\ acquires = 0 => ~isProducerConnected
    /\ \A p \in Callers : cpc[p] = "holding" => isProducerConnected
    /\ (zeroReleaseDone /\ producerInstance = 0 /\ connectPromise = 0)
          => ~isProducerConnected

\* a step in which caller p calls connectProducer
ConnectCalledBy(p) == cpc[p] = "idle" /\ cpc'[p] = "awaitConnect"

\* a step in which caller p calls disconnectProducer
DisconnectCalledBy(p) ==
    /\ releases' = releases + 1
    /\ cpc[p] \in {"idle", "holding"}
    /\ rounds'[p] # rounds[p] \/ cpc[p] = "holding"
    /\ cpc'[p] \in {"idle", "awaitDisconnect"}

\* the first connectProducer call after a completed release to zero makes a
\* new producer and connects it
C27_Step ==
    \A p \in Callers :
        (zeroReleaseDone /\ ConnectCalledBy(p)) =>
            /\ nextInstance' = nextInstance + 1
            /\ producerInstance' = nextInstance'
            /\ connectCalls' = connectCalls + 1

\* C27 (as stated): after the release that brought the reference count to
\* zero has completed, the next connectProducer call creates a producer
\* instance that did not exist before and calls the underlying connect
\* again.
C27_AsStated == [][C27_Step]_vars

\* a disconnectProducer call without reference and producer changes nothing
C28_Step ==
    \A p \in Callers :
        (DisconnectCalledBy(p) /\ refCount = 0 /\ producerInstance = 0) =>
            /\ refCount' = 0
            /\ disconnectCalls' = disconnectCalls
            /\ cpc'[p] = "idle"
            /\ ~producerConnected'

\* C28 (as stated): the reference count is never negative, and a
\* disconnectProducer call made when no reference is held and no producer
\* exists calls no underlying disconnect and leaves the state
\* not-connected, after any sequence of connect and disconnect calls.
C28_AsStated == [](refCount >= 0) /\ [][C28_Step]_vars

----------------------------------------------------------------------------
(* The responses csvStreamToKafka meets *)

\* fetch has resolved with a response
Responded == response # NoResponse

\* the response has a 2xx status
Is2xx == response.status >= 200 /\ response.status <= 299

\* C22: a response that is not 2xx makes csvStreamToKafka reject with an
\* HttpError whose statusCode is the status of the response, a 2xx response
\* without body makes it reject with an error that is no HttpError; in both
\* cases nothing is handed to the publisher, so nothing is sent to any topic.
C22_Theorem ==
    Responded =>
        /\ ~Is2xx =>
              /\ cpos = "rejected"
              /\ csvError.kind = "HttpError"
              /\ csvError.statusCode = response.status
              /\ handed = << >>
        /\ (Is2xx /\ ~response.body) =>
              /\ cpos = "rejected"
              /\ csvError.kind = "Error"
              /\ handed = << >>

\* the buffered call met a 404 and rejected with HttpError 404
C22_Witness ==
    /\ csvVariant = Buffered
    /\ response.status = 404
    /\ cpos = "rejected"
    /\ csvError.kind = "HttpError" /\ csvError.statusCode = 404

\* the body stream or the parser failed after a 2xx response with a body
BodyFailed ==
    /\ Responded /\ Is2xx /\ response.body
    /\ cpos = "rejected"
    /\ producerCalls = <<"connect">>

----------------------------------------------------------------------------
(* Cycles and their tasks *)

\* the first cycle is the one startScheduler starts, every later one is
\* started by cron; a cycle that has ended has run every configured type
C24_Cycles ==
    /\ cycles = 0 <=> jobState = "none"
    /\ cycles = 1 => invoker = "startup"
    /\ cycles > 1 => invoker = "cron"
    /\ jobState = "finished" =>
          \A t \in Types :
              /\ tpc[t] = "done"
              /\ calls[t] >= 1
              /\ Len(outcomes[t]) = calls[t]

\* a step starts at most one cycle; within a cycle the task of a type is
\* started once: it does not go back to the queue or leave its end
C24_Step ==
    /\ cycles' # cycles =>
          /\ cycles' = cycles + 1
          /\ jobState' = "running"
          /\ invoker' = IF cycles = 0 THEN "startup" ELSE "cron"
          /\ \A t \in Chunk(0) : tpc'[t] = "attempting" /\ calls'[t] = 1
    /\ cycles' = cycles =>
          \A t \in Types :
              /\ tpc[t] = "done" => tpc'[t] = "done"
              /\ tpc[t] # "queued" => tpc'[t] # "queued"
              /\ (tpc[t] = "queued" /\ tpc'[t] # "queued") => calls'[t] = 1

InFlight == {t \in Types : tpc[t] \in {"attempting", "backoff"}}

\* C25: within a cycle, the number of source-type tasks in flight, from
\* the start of their first fetch to their outcome and with their backoff
\* waits, never exceeds maxConcurrentCsv.
C25_Theorem == Cardinality(InFlight) <= maxConcurrentCsv

\* with a limit of two, two tasks are in flight, one of them in backoff,
\* and the third type waits
C25_Witness ==
    /\ maxConcurrentCsv = 2
    /\ Cardinality(InFlight) = 2
    /\ \E t \in Types : tpc[t] = "backoff"
    /\ \E t \in Types : tpc[t] = "queued"

----------------------------------------------------------------------------
(* The order of the fallback stages *)

\* call c has logged the loss of its envelopes
HasLossLog(c) ==
    \E i \in DOMAIN log[c] :
        log[c][i].msg \in {"CRITICAL: Failed to write DLQ fallback file",
                           "Lost DLQ messages"}

\* C29: the fallback stages of a batch happen in a fixed order and each
\* only after the stage before it has failed: the dead-letter send after
\* the failed primary send, the fallback file (directory creation, then
\* write) after the failed dead-letter send, the critical loss log after
\* the failed directory creation or write; a stage that succeeds ends the
\* cascade.
C29_Theorem ==
    \A c \in Calls :
        /\ entry[c] = "publishBatch" =>
              /\ \A i \in SendsOn(c, DlqTopic) :
                    \E j \in SendsOn(c, Topic) : j < i /\ ~sendLog[c][j].ok
              /\ ppc[c] = "awaitDlqSend" => PrimaryFailed(c)
              /\ (\E i \in SendsOn(c, Topic) : sendLog[c][i].ok) =>
                    /\ ppc[c] = "returned"
                    /\ SendsOn(c, DlqTopic) = {}
                    /\ fsCalls[c] = << >>
                    /\ ~HasLossLog(c)
        /\ fsCalls[c] # << >> => DlqFailed(c)
        /\ ppc[c] \in {"awaitMkdir", "awaitWriteFile"} => DlqFailed(c)
        /\ (\E i \in SendsOn(c, DlqTopic) : sendLog[c][i].ok) =>
              /\ ppc[c] = "returned"
              /\ fsCalls[c] = << >>
              /\ ~HasLossLog(c)
        /\ \A i \in FsCallsOf(c, "writeFile") :
              \E j \in FsCallsOf(c, "mkdir") : j < i /\ fsCalls[c][j].ok
        /\ HasLossLog(c) =>
              /\ fsCalls[c] # << >>
              /\ ~fsCalls[c][Len(fsCalls[c])].ok
        /\ (\E i \in FsCallsOf(c, "writeFile") : fsCalls[c][i].ok) =>
              /\ ppc[c] = "returned"
              /\ ~HasLossLog(c)

\* one batch went through the whole cascade down to the loss log, the
\* cascade of another ended with the dead-letter send
C29_Witness ==
    \E c, d \in Calls :
        /\ entry[c] = "publishBatch" /\ entry[d] = "publishBatch"
        /\ PrimaryFailed(c) /\ DlqFailed(c)
        /\ \E i \in FsCallsOf(c, "writeFile") : ~fsCalls[c][i].ok
        /\ HasLossLog(c)
        /\ PrimaryFailed(d)
        /\ \E i \in SendsOn(d, DlqTopic) : sendLog[d][i].ok
        /\ ppc[d] = "returned"

----------------------------------------------------------------------------
(* The one-time retry *)

\* the retryCallback is called at most once, with the failed types given,
\* not before retryHours hours after the call of scheduleRetry, and not at
\* all for an empty list or hours that are not positive; nothing leaves
\* scheduleRetry or its job as an exception
C30_Safe ==
    /\ rpc \in {"idle", "returned", "scheduled", "awaitCallback", "completed"}
    /\ Len(callbackCalls) <= 1
    /\ callbackCalls # << >> =>
          /\ callbackCalls[1] = failedTypes
          /\ failedTypes # << >>
          /\ retryHours > 0
          /\ nowMs - scheduledAt >= retryHours * 3600000
    /\ (rpc # "idle" /\ (failedTypes = << >> \/ retryHours <= 0)) =>
          /\ rpc = "returned"
          /\ callbackCalls = << >>
    /\ rpc \in {"awaitCallback", "completed"} => Len(callbackCalls) = 1

\* C30: scheduleRetry calls the retry callback exactly once, with the failed
\* types it was given, and not before retryHours hours have passed since
\* the call; it never calls it for an empty list or for retryHours <= 0,
\* and a rejection of the callback is caught.
C30_Theorem ==
    /\ []C30_Safe
    /\ (rpc = "scheduled") ~> (Len(callbackCalls) = 1)

\* the retry of two failed types, scheduled for two hours later, has run
\* and its callback was rejected
C30_Witness ==
    /\ rpc = "completed"
    /\ failedTypes = <<"hail", "wind">>
    /\ retryHours = 2
    /\ callbackCalls = << <<"hail", "wind">> >>
    /\ \E i \in DOMAIN console : console[i].msg = "Error during retry callback"

----------------------------------------------------------------------------
(* Interleavings of connectProducer and disconnectProducer *)

\* C33 (as stated): a caller that holds a reference obtained from
\* connectProducer holds a connected producer, and never the instance that
\* a disconnectProducer call is disconnecting.
C33_AsStated ==
    \A p \in Callers :
        cpc[p] = "holding" =>
            /\ got[p] \in connectedInstances
            /\ \A q \in Callers :
                  cpc[q] = "awaitDisconnect" => got[p] # disconnecting[q]

\* C34 (as stated): isProducerConnected() = true implies that a producer
\* instance exists and that it is connected.
C34_AsStated ==
    isProducerConnected =>
        /\ producerInstance # 0
        /\ producerInstance \in connectedInstances

\* the connect in flight that connectProducer would return has failed
ConnectFailed ==
    /\ connectPromise # 0
    /\ promises[connectPromise].state = "rejected"

\* a connectProducer call made after the connect failed calls the
\* underlying connect again
C35_Step ==
    \A p \in Callers :
        (ConnectFailed /\ ConnectCalledBy(p)) =>
            /\ connectCalls' = connectCalls + 1
            /\ awaiting'[p].kind = "promise"
            /\ promises'[awaiting'[p].v].state = "pending"

\* C35 (as stated): a rejected underlying connect reaches the callers that
\* wait for it, and a later connectProducer call starts a new underlying
\* connect instead of returning the failed one.
C35_AsStated ==
    /\ [](\A p \in Callers :
            (cpc[p] = "holding" /\ awaiting[p].kind = "promise")
                => promises[awaiting[p].v].state = "fulfilled")
    /\ [][C35_Step]_vars

----------------------------------------------------------------------------
(* Acquire and release of the broker connection by csvStreamToKafka *)

\* every csvStreamToKafka call has left, and no underlying connect failed
AllTerminated ==
    /\ \A p \in Callers : cpc[p] = "idle"
    /\ \A q \in DOMAIN promises : promises[q].state # "rejected"

\* C32 (as stated): every acquisition made by csvStreamToKafka is matched by
\* one release on every exit path, so once every call has terminated the
\* reference count is zero and the connection has been disconnected.
C32_AsStated ==
    AllTerminated =>
        /\ releases = acquires
        /\ refCount = 0
        /\ producerInstance = 0
        /\ ~producerConnected

----------------------------------------------------------------------------
(* The streaming variant: release and result against the batches in flight *)

\* a publishBatch call of the document has not returned yet
BatchInFlight == \E b \in DOMAIN handed : handed[b].state = "inflight"

\* producer.disconnect() has been called
DisconnectIssued ==
    \E i \in DOMAIN producerCalls : producerCalls[i] = "disconnect"

\* C36 (as stated): in the streaming variant the producer is disconnected
\* and the call resolves only after every batch publish started for the
\* document has completed.
C36_AsStated ==
    (csvVariant = Streaming /\ (DisconnectIssued \/ cpos = "resolved"))
        => ~BatchInFlight

\* the batches whose primary publish failed
FailedBatches == {b \in DOMAIN handed : handed[b].state = "failed"}

\* C37 (as stated): when the streaming variant resolves, totalRows =
\* publishedRows + dlqRows, totalRows is the number of data rows of the
\* document and batchFailures is the number of batches that failed.
C37_AsStated ==
    (csvVariant = Streaming /\ cpos = "resolved") =>
        /\ csvResult.totalRows = csvResult.publishedRows + csvResult.dlqRows
        /\ csvResult.totalRows = csvLen
        /\ csvResult.batchFailures = Cardinality(FailedBatches)

----------------------------------------------------------------------------
(* The outcome of a task against the outcome of its publishes *)

\* what the awaited csvStreamToKafka call hands to processCsvWithFallback
CallOutcome ==
    IF cpos = "resolved"
    THEN [kind |-> "resolved", statusCode |-> response.status]
    ELSE csvError

\* the task is counted as successful at whatever attempt the call was made
TaskSucceeds ==
    \A k \in 0..maxFallbackAttempts :
        LET next == processCsvWithFallback(CallOutcome, k)
        IN  next.do = "return" /\ next.success

\* the task is counted as failed, without a retry, at whatever attempt
TaskFailsForGood ==
    \A k \in 0..maxFallbackAttempts :
        LET next == processCsvWithFallback(CallOutcome, k)
        IN  next.do = "return" /\ ~next.success

FetchedWithBody == Responded /\ Is2xx /\ response.body

\* C38 (as stated): whenever the fetch returns 2xx with a body, the task is
\* counted as successful.
C38_AsStated ==
    (FetchedWithBody /\ cpos \in {"resolved", "rejected"}) => TaskSucceeds

\* the release of the producer failed
ReleaseFailed ==
    /\ cpos = "rejected"
    /\ producerCalls = <<"connect", "disconnect">>

\* a publishBatch call returns with a failure
PublishFails ==
    \E b \in DOMAIN handed :
        /\ handed[b].state = "inflight"
        /\ b \in DOMAIN handed'
        /\ handed'[b].state = "failed"

\* C38 (amended): after a 2xx response with a body the call rejects only
\* when reading the body or releasing the producer fails, and the task then
\* fails without a fetch retry; otherwise the call resolves and the task is
\* counted as successful whatever became of its batches; no failed publish
\* makes the call reject.
C38_Theorem ==
    /\ [](FetchedWithBody =>
            /\ cpos = "rejected" =>
                  /\ BodyFailed \/ ReleaseFailed
                  /\ TaskFailsForGood
            /\ cpos = "resolved" => TaskSucceeds)
    /\ [][PublishFails => (cpos' = "rejected" => cpos = "rejected")]_vars

\* a buffered call resolved although the publish of its rows had failed
C38_Witness ==
    /\ csvVariant = Buffered
    /\ FetchedWithBody
    /\ cpos = "resolved"
    /\ \E b \in DOMAIN handed : handed[b].state = "failed"
    /\ TaskSucceeds

----------------------------------------------------------------------------
(* Termination of the tasks and of the cycle *)

\* a further fetch attempt of a running task follows a 5xx answer to the
\* attempt before it, after the backoff wait
C39_Step ==
    \A t \in Types :
        (calls[t] >= 1 /\ calls'[t] > calls[t]) =>
            /\ calls'[t] = calls[t] + 1
            /\ tpc[t] = "backoff"
            /\ Len(outcomes[t]) = calls[t]
            /\ Is5xx(Last(outcomes[t]))

\* the attempts of a cycle are bounded and answered one by one
C39_Bounded ==
    \A t \in Types :
        /\ calls[t] <= maxFallbackAttempts + 1
        /\ Len(outcomes[t]) <= calls[t]
        /\ tpc[t] = "done" => Len(outcomes[t]) = calls[t]

AllDone == \A t \in Types : tpc[t] = "done"

----------------------------------------------------------------------------
(* Shutdown against the publishes in flight *)

\* the first timer of the forced exit has run out
HardTimeoutExpired ==
    /\ shutdownTimers # << >>
    /\ shutdownTimers[1] >= GRACEFUL_SHUTDOWN_TIMEOUT_MS

\* C31 (as stated): after a shutdown signal the process exits no later than
\* the 10-second hard timeout, and it does not exit before the publishes in
\* flight have finished unless that timeout expires.
C31_AsStated ==
    /\ exitCode = NotExited =>
          \A i \in DOMAIN shutdownTimers :
              shutdownTimers[i] <= GRACEFUL_SHUTDOWN_TIMEOUT_MS
    /\ exitCode # NotExited => (~BatchInFlight \/ HardTimeoutExpired)

----------------------------------------------------------------------------
(* Pipeline runs of one source type across cycles *)

\* the runJob calls whose task for type t is between its first fetch and
\* its outcome
RunsInFlight(t) ==
    {r \in Runs : ovJob[r] = "running"
                    /\ ovTpc[r][t] \in {"attempting", "backoff"}}

\* C40 (as stated): at any time at most one pipeline run (fetch, backoff
\* wait or publish) per source type is in flight across cycles.
C40_AsStated ==
    \A t \in Types : Cardinality(RunsInFlight(t)) <= 1

====
